---- MODULE Spec2Model ----
(***************************************************************************)
(* Verification model of the carmen backend.                               *)
(*                                                                         *)
(*  - the chunked parallel executor: IFVMService.run_engine and            *)
(*    IFStorageService.run_engine with the worker closure                  *)
(*    compute_metrics_for_chunk, IFService.run_if and                      *)
(*    IFService.parse_if_output (specification Spec);                      *)
(*  - CrudThanosApp.exec_query (specification SpecQuery, and               *)
(*    SpecQueryLive with weak fairness);                                   *)
(*  - CarbonDaemon.run (specification SpecDaemon);                         *)
(*  - the compute readers' read_files (specification SpecReader);          *)
(*  - PaasCiMapper (specification SpecCi);                                 *)
(*  - ArgosService.retrieve_telemetry_data under its endpoint              *)
(*    (specification SpecArgos);                                           *)
(*  - IFStorageService.get_resource_inputs (specification SpecInputs);     *)
(*  - the mapping of evaluator output onto a resource                      *)
(*    (specification SpecMap);                                             *)
(*  - repeated and concurrent IFService.run_if (specification SpecRunIf);  *)
(*  - the storage energy under two replication types                       *)
(*    (specification SpecEnergy);                                          *)
(*  - the pue of the VirtualMachine lists of the daemon and of the         *)
(*    hardware endpoint (specification SpecPue);                           *)
(*  - process_storage_row (specification SpecStorageRows);                 *)
(*  - the file paths of evaluator runs in the daemon process and in the    *)
(*    API process (specification SpecPaths).                               *)
(***************************************************************************)
EXTENDS Integers, Sequences, FiniteSets, TLC

(***************************************************************************)
(* Bounds of the model.                                                    *)
(***************************************************************************)
\* largest resource list handed to run_engine
MaxResources == 11
\* chunk_size of IFVMService.run_engine (430 in the source), scaled down
VmChunkSize == 2
\* chunk_size of IFStorageService.run_engine (10000 in the source), scaled down
StorageChunkSize == 3
\* most chunks of one run_engine call whose evaluation fails
MaxFailures == 1

(***************************************************************************)
(* Program constants.                                                      *)
(***************************************************************************)
\* a pool without an effective limit
MaxWorkersUnbounded == MaxResources + 1
\* ThreadPoolExecutor(max_workers=5)
MaxWorkers == 5
\* a loop of five attempts
RetryAttemptsFive == 2 + 3
\* retry_attempts = 3
RetryAttempts == 3
\* ErrorCode values
AUTH_TOKEN_REFRESH_FAILED == 2005
THANOS_QUERY_FAILED == 3101
THANOS_TIMEOUT == 3102
THANOS_INVALID_RESPONSE == 3103
THANOS_CONNECTION_ERROR == 3104

VARIABLES
    profile,      \* "vm" | "storage": which run_engine is executing
    inputList,    \* the resource list as it was when run_engine was called
    vms,          \* the caller's list (vms / storage_resources), mutated in place
    heap,         \* resource id -> its computed fields (the objects are shared)
    chunkSize,    \* local chunk_size of run_engine
    chunks,       \* local chunks: sequence of slices, chunk index c is chunks[c+1]
    submitted,    \* number of futures submitted so far
    wpc,          \* chunk index -> position of its worker
    wexc,         \* chunk index -> exception stored in its future
    outFile,      \* file id -> content of if_output<file id>.yaml
    fileUsers,    \* file id -> chunk indices that wrote or read files of that id
    lock,         \* holders of threading.Lock(): {} when free, {c} when chunk c holds it
    enginePc,     \* position of the run_engine caller thread
    engineResult, \* what run_engine gave its caller
    outOfOrder,   \* history: some chunk finished before a chunk of lower index
    \* CrudThanosApp.exec_query
    qpc,          \* position in exec_query
    attempt,      \* loop variable of "for attempt in range(retry_attempts)"
    response,     \* local variable response: kind of the last response received
    qlog,         \* history: outcome of every make_request() call, in order
    refreshes,    \* history: number of auth_strategy.get_headers() calls
    qresult,      \* what exec_query gave its caller
    \* CarbonDaemon.run
    daemonPc,     \* position in CarbonDaemon.run
    stepLog,      \* history: the collaborators invoked, in order
    thrown,       \* history: which collaborator raised, and what
    writerArg,    \* the list the writer was created with
    daemonResult, \* what run gave its caller
    \* LocalComputeReaderStrategy.read_files / AzureComputeReaderStrategy.read_files
    readerPc,     \* position in read_files
    fileCount,    \* len(self.file_names)
    fileIndex,    \* number of entries of self.file_names gone through
    rowsLeft,     \* rows of the open CSV file that csv_reader has yet to yield
    vm_dict,      \* local vm_dict, in insertion order
    missing_files,\* local missing_files / missing_blobs (positions in file_names)
    readerResult, \* what read_files gave its caller
    fileErrors,   \* the exceptions raised while a file was read or processed
    \* PaasCiMapper
    ciCache,      \* the lru_cache of calculate_ci: zone -> cached return value
    ciCalls,      \* number of calls made so far
    ciResult,     \* what the last call gave its caller
    \* ArgosService.retrieve_telemetry_data under run_engine_for_selected_resources
    argosPc,      \* position in the endpoint and in retrieve_telemetry_data
    desired_timestamps, \* local desired_timestamps
    clusters,     \* argument clusters: the PaaS values, each as its parts
    applications, \* whether the argument applications is a non-empty list
    groupIndex,   \* index of the cluster_group of the current loop iteration
    taskIndex,    \* index of the (query, consumption_type) task in it
    interp_pod_telemetries, \* local dict uid -> Pod, in insertion order
    telemetryResult, \* what retrieve_telemetry_data gave the endpoint
    apiResult,    \* what the endpoint gave its caller
    groupFailures,\* the exceptions exec_query raised, with their cluster group
    \* IFStorageService.get_resource_inputs
    inputsPc,     \* position in get_resource_inputs
    storage_resource, \* argument storage_resource
    time_index,   \* loop variable time_index
    resource_inputs,  \* local resource_inputs, the list that is returned
    \* IFService.aggregate_app_level / aggregate_pod_level, for one resource
    mapPc,        \* position in the loop body
    pod_level,    \* TRUE in aggregate_pod_level, FALSE in aggregate_app_level
    if_output,    \* the resource's node of the evaluator output
    metrics,      \* local metrics / pod_metrics
    compute_resource, \* the resource (or pod) the output is mapped onto
    resource_before,  \* history: the resource as it was before the mapping
    \* IFService.run_if and parse_if_output, called on one service object
    runPc,        \* caller -> position in run_if / parse_if_output
    runArg,       \* caller -> the resource it passed, as it was at the call
    dataRef,      \* caller -> the object its local variable data refers to
    dataObjects,  \* object -> its content; "self" is self.data
    inFiles,      \* file id -> content of if_input<file id>.yaml
    outFiles,     \* file id -> content of if_output<file id>.yaml
    runLog,       \* history: (resource, result) of every completed run
    \* IFStorageService.run_engine on one storage under two replication types
    energyPc,     \* replication types whose run has completed
    base_storage, \* the storage the runs are made on, but for replication_type
    storageEnergy, \* replication type -> what its run computed and reported
    \* the VM profile behind its two entry points
    puePc,        \* position: "start", "engine" (the list is built), "done"
    pueEntry,     \* "daemon" (CarbonDaemon.run) or "hw" (the hardware endpoint)
    vmList,       \* the VirtualMachine list handed to run_engine
    pueInputs,    \* per VM and time point, what SciEPue.fill_inputs gave
    \* process_storage_row over the rows of a billing file
    billing_period_days, \* the argument billing_period_days
    storage_dict, \* the argument storage_dict, in insertion order
    rowsApplied,  \* number of calls so far
    acceptedRows, \* the rows so far with a size, a duration and a LineNumber
    rowReturn,    \* what the last call gave: "True", "False" or an exception
    \* the evaluator runs of the daemon process and of the API process
    daemonChunks, \* number of chunks of the daemon's run_engine call
    chunkPc,      \* chunk -> position of its worker thread
    apiPc,        \* position of the request that the event loop is handling
    apiProfile,   \* profile of that request: "app" or "vm"
    apiServed,    \* number of requests handled so far
    manifestAt,   \* manifest path -> the run that wrote the file last
    outputAt      \* output path -> the run whose manifest the evaluator read

engineVars == <<profile, inputList, vms, heap, chunkSize, chunks, submitted,
                wpc, wexc, outFile, fileUsers, lock, enginePc, engineResult,
                outOfOrder>>
queryVars == <<qpc, attempt, response, qlog, refreshes, qresult>>
daemonVars == <<daemonPc, stepLog, thrown, writerArg, daemonResult>>

readerVars == <<readerPc, fileCount, fileIndex, rowsLeft, vm_dict, missing_files,
                readerResult, fileErrors>>

ciVars == <<ciCache, ciCalls, ciResult>>

coreVars == <<engineVars, queryVars, daemonVars>>
argosVars == <<argosPc, desired_timestamps, clusters, applications, groupIndex,
               taskIndex, interp_pod_telemetries, telemetryResult, apiResult,
               groupFailures>>
inputsVars == <<inputsPc, storage_resource, time_index, resource_inputs>>
mapVars == <<mapPc, pod_level, if_output, metrics, compute_resource, resource_before>>
runVars == <<runPc, runArg, dataRef, dataObjects, inFiles, outFiles, runLog>>
ifVars == <<inputsVars, mapVars, runVars>>
energyVars == <<energyPc, base_storage, storageEnergy>>
pueVars == <<puePc, pueEntry, vmList, pueInputs>>
rowVars == <<billing_period_days, storage_dict, rowsApplied, acceptedRows, rowReturn>>
pathVars == <<daemonChunks, chunkPc, apiPc, apiProfile, apiServed, manifestAt,
              outputAt>>
moreVars == <<energyVars, pueVars, rowVars, pathVars>>
baseVars == <<coreVars, readerVars, ciVars, argosVars, ifVars>>
auxVars == <<readerVars, ciVars, argosVars, ifVars, moreVars>>

vars == <<coreVars, auxVars>>

ResourceIds == 1..(MaxResources + 1)
ChunkIds == 0..MaxResources

Min(a, b) == IF a < b THEN a ELSE b

Uncomputed == [observations |-> "empty", aggregated |-> "default"]
Computed == [observations |-> "computed", aggregated |-> "computed"]

NoException == [kind |-> "none", fileId |-> 0]
AbsentFile == [status |-> "absent", children |-> {}]

\* chunk_size = 430 / chunk_size = 10000
ProfileChunkSize(p) == IF p = "vm" THEN VmChunkSize ELSE StorageChunkSize

\* range(0, len(vms), chunk_size)
ChunkStarts(len, size) == {x \in 0..(len - 1) : x % size = 0}

\* [vms[x : x + chunk_size] for x in range(0, len(vms), chunk_size)]
MakeChunks(list, size) ==
    [k \in 1..Cardinality(ChunkStarts(Len(list), size)) |->
        SubSeq(list, (k - 1) * size + 1, Min(k * size, Len(list)))]

NumChunks == Len(chunks)
Chunk(c) == chunks[c + 1]
Submitted == 0..(submitted - 1)

\* run_if / parse_if_output called without file_id: the default file_id=0
FileIdDefault(c) == 0
\* compute_metrics_for_chunk(chunk, index): file_id=index
FileId(c) == c

Running == {c \in Submitted : wpc[c] \in {"started", "evaluated", "parsed", "locked"}}
Finished == {c \in Submitted : wpc[c] \in {"done", "failed"}}
Failed == {c \in Submitted : wpc[c] = "failed"}

\* chunks whose evaluation went wrong so far (bounded by MaxFailures)
Troubled ==
    {c \in Submitted :
        \/ wexc[c].kind # "none"
        \/ /\ wpc[c] = "evaluated"
           /\ \/ outFile[FileId(c)].status # "success"
              \/ \E i \in 1..Len(Chunk(c)) : Chunk(c)[i] \notin outFile[FileId(c)].children}
MayFail == Cardinality(Troubled) < MaxFailures

Range(s) == {s[i] : i \in 1..Len(s)}

(***************************************************************************)
(* Init: run_engine has just been called with a list of n resources with   *)
(* ids 1..n, none of them computed yet.                                    *)
(***************************************************************************)
NoResult == [kind |-> "none", code |-> 0]

QueryIdle ==
    /\ qpc = "idle"
    /\ attempt = 0
    /\ response = "none"
    /\ qlog = <<>>
    /\ refreshes = 0
    /\ qresult = NoResult

NoThrow == [by |-> "nobody", kind |-> "none"]
NoDaemonResult == [kind |-> "none", success |-> FALSE, vm_count |-> 0,
                   error_message |-> ""]

DaemonIdle ==
    /\ daemonPc = "idle"
    /\ stepLog = <<>>
    /\ thrown = NoThrow
    /\ writerArg = <<>>
    /\ daemonResult = NoDaemonResult

EngineFresh ==
    /\ heap = [r \in ResourceIds |-> Uncomputed]
    /\ chunkSize = 0
    /\ chunks = <<>>
    /\ submitted = 0
    /\ wpc = [c \in ChunkIds |-> "unsubmitted"]
    /\ wexc = [c \in ChunkIds |-> NoException]
    /\ outFile = [f \in ChunkIds |-> AbsentFile]
    /\ fileUsers = [f \in ChunkIds |-> {}]
    /\ lock = {}
    /\ engineResult = [kind |-> "none", exc |-> NoException]
    /\ outOfOrder = FALSE

EngineIdle ==
    /\ EngineFresh
    /\ profile = "vm"
    /\ inputList = <<>>
    /\ vms = <<>>
    /\ enginePc = "idle"

NoVmList == [kind |-> "none", vms |-> <<>>]

ReaderIdle ==
    /\ readerPc = "idle"
    /\ fileCount = 0
    /\ fileIndex = 0
    /\ rowsLeft = 0
    /\ vm_dict = <<>>
    /\ missing_files = {}
    /\ readerResult = NoVmList
    /\ fileErrors = {}

CoreIdle == EngineIdle /\ QueryIdle /\ DaemonIdle
NoCiResult == [kind |-> "none", value |-> 0, exc |-> "none"]

CiIdle ==
    /\ ciCache = <<>>
    /\ ciCalls = 0
    /\ ciResult = NoCiResult

NoTelemetry == [kind |-> "none", exc |-> "none", code |-> 0, resources |-> <<>>]
NoApiResult == [kind |-> "none", exc |-> "none", code |-> 0, status |-> 0]

ArgosIdle ==
    /\ argosPc = "idle"
    /\ desired_timestamps = <<>>
    /\ clusters = <<>>
    /\ applications = FALSE
    /\ groupIndex = 0
    /\ taskIndex = 0
    /\ interp_pod_telemetries = <<>>
    /\ telemetryResult = NoTelemetry
    /\ apiResult = NoApiResult
    /\ groupFailures = <<>>

\* a StorageResource; unset names the attributes that hold None
NoStorageResource ==
    [storage_type |-> <<>>, replication_type |-> <<>>,
     size_gb |-> [kind |-> "number", v |-> 0], duration_seconds |-> 0,
     time_points |-> <<>>, carbon_intensity |-> 0, unset |-> {}]

InputsIdle ==
    /\ inputsPc = "idle"
    /\ storage_resource = NoStorageResource
    /\ time_index = 0
    /\ resource_inputs = <<>>

MapIdle ==
    /\ mapPc = "idle"
    /\ pod_level = FALSE
    /\ if_output = <<>>
    /\ metrics = <<>>
    /\ compute_resource = <<>>
    /\ resource_before = <<>>

RunIdle ==
    /\ runPc = <<>>
    /\ runArg = <<>>
    /\ dataRef = <<>>
    /\ dataObjects = <<>>
    /\ inFiles = <<>>
    /\ outFiles = <<>>
    /\ runLog = <<>>

IfIdle == InputsIdle /\ MapIdle /\ RunIdle

EnergyIdle ==
    /\ energyPc = {}
    /\ base_storage = NoStorageResource
    /\ storageEnergy = <<>>

PueIdle ==
    /\ puePc = "idle"
    /\ pueEntry = "none"
    /\ vmList = <<>>
    /\ pueInputs = <<>>

RowIdle ==
    /\ billing_period_days = 0
    /\ storage_dict = <<>>
    /\ rowsApplied = 0
    /\ acceptedRows = <<>>
    /\ rowReturn = "idle"

PathIdle ==
    /\ daemonChunks = 0
    /\ chunkPc = <<>>
    /\ apiPc = "off"
    /\ apiProfile = "none"
    /\ apiServed = 0
    /\ manifestAt = <<>>
    /\ outputAt = <<>>

MoreIdle == EnergyIdle /\ PueIdle /\ RowIdle /\ PathIdle

BaseIdle == CoreIdle /\ ReaderIdle /\ CiIdle /\ ArgosIdle /\ IfIdle

AuxIdle == ReaderIdle /\ CiIdle /\ ArgosIdle /\ IfIdle /\ MoreIdle

Init ==
    /\ AuxIdle
    /\ QueryIdle
    /\ DaemonIdle
    /\ EngineFresh
    /\ profile \in {"vm", "storage"}
    /\ \E n \in 0..MaxResources : inputList = [i \in 1..n |-> i]
    /\ vms = inputList
    /\ enginePc = "split"

(***************************************************************************)
(* run_engine, caller thread.                                              *)
(***************************************************************************)
\* chunk_size = min(chunk_size, len(vms)); chunks = [... range(0, len, chunk_size)]
\* range() raises ValueError when its step is zero
Split ==
    /\ enginePc = "split"
    /\ chunkSize' = Min(ProfileChunkSize(profile), Len(vms))
    /\ \/ /\ chunkSize' = 0
          /\ enginePc' = "done"
          /\ engineResult' = [kind |-> "raised",
                              exc |-> [kind |-> "ValueError", fileId |-> 0]]
          /\ UNCHANGED chunks
       \/ /\ chunkSize' > 0
          /\ chunks' = MakeChunks(vms, chunkSize')
          /\ enginePc' = "submit"
          /\ UNCHANGED engineResult
    /\ UNCHANGED <<auxVars, queryVars, daemonVars, outOfOrder, profile, inputList,
                   vms, heap, submitted, wpc, wexc,
                   outFile, fileUsers, lock>>

\* executor.submit(compute_metrics_for_chunk, chunk, i) for i, chunk in enumerate(chunks)
Submit ==
    /\ enginePc = "submit"
    /\ submitted < NumChunks
    /\ wpc' = [wpc EXCEPT ![submitted] = "queued"]
    /\ submitted' = submitted + 1
    /\ UNCHANGED <<auxVars, queryVars, daemonVars, outOfOrder, profile, inputList,
                   vms, heap, chunkSize, chunks, wexc,
                   outFile, fileUsers, lock, enginePc, engineResult>>

\* a wait that ends with the first completed future and a pool that is not joined
FirstCompleted == Finished # {}
\* concurrent.futures.wait(futures): return_when=ALL_COMPLETED
AllCompleted == Finished = Submitted

\* wait(futures); leaving the with block; return vms.
\* No future's result() or exception() is ever read.
WaitAndReturn ==
    /\ enginePc = "submit"
    /\ submitted = NumChunks
    /\ AllCompleted
    /\ enginePc' = "done"
    /\ engineResult' = [kind |-> "returned", exc |-> NoException]
    /\ UNCHANGED <<auxVars, queryVars, daemonVars, outOfOrder, profile, inputList,
                   vms, heap, chunkSize, chunks, submitted,
                   wpc, wexc, outFile, fileUsers, lock>>

(***************************************************************************)
(* The pool and compute_metrics_for_chunk(chunk, index).                   *)
(***************************************************************************)
\* a pool thread takes the oldest queued work item
StartChunk(c) ==
    /\ c \in Submitted
    /\ wpc[c] = "queued"
    /\ \A d \in Submitted : d < c => wpc[d] # "queued"
    /\ Cardinality(Running) < MaxWorkers
    /\ wpc' = [wpc EXCEPT ![c] = "started"]
    /\ UNCHANGED <<auxVars, queryVars, daemonVars, outOfOrder, profile, inputList,
                   vms, heap, chunkSize, chunks, submitted,
                   wexc, outFile, fileUsers, lock, enginePc, engineResult>>

\* self.run_if(chunk, file_id=index): write_if_input, then run_command_in_shell.
\* The evaluator writes if_output<file id>.yaml or exits non-zero (ValueError).
RunIf(c) ==
    /\ c \in Submitted
    /\ wpc[c] = "started"
    /\ fileUsers' = [fileUsers EXCEPT ![FileId(c)] = @ \cup {c}]
    /\ \/ /\ MayFail
          /\ wpc' = [wpc EXCEPT ![c] = "failed"]
          /\ wexc' = [wexc EXCEPT ![c] = [kind |-> "ValueError", fileId |-> 0]]
          /\ UNCHANGED outFile
       \/ /\ wpc' = [wpc EXCEPT ![c] = "evaluated"]
          /\ \/ outFile' = [outFile EXCEPT ![FileId(c)] =
                               [status |-> "success", children |-> Range(Chunk(c))]]
             \/ /\ MayFail
                /\ outFile' = [outFile EXCEPT ![FileId(c)] =
                                  [status |-> "failure", children |-> {}]]
             \/ /\ MayFail
                /\ \E r \in Range(Chunk(c)) :
                      outFile' = [outFile EXCEPT ![FileId(c)] =
                                     [status |-> "success",
                                      children |-> Range(Chunk(c)) \ {r}]]
          /\ UNCHANGED wexc
    /\ UNCHANGED <<auxVars, queryVars, daemonVars, outOfOrder, profile, inputList,
                   vms, heap, chunkSize, chunks, submitted,
                   lock, enginePc, engineResult>>

\* index of the first resource of the chunk that the output tree lacks, or
\* Len(chunk) + 1 when the tree has them all
FirstMissing(chunk, children) ==
    IF \E i \in 1..Len(chunk) : chunk[i] \notin children
    THEN CHOOSE i \in 1..Len(chunk) :
            /\ chunk[i] \notin children
            /\ \A j \in 1..(i - 1) : chunk[j] \in children
    ELSE Len(chunk) + 1

\* IFService.aggregate_app_level: for each resource in order,
\* get_measurements_from_output (KeyError on a missing id) then
\* MetricsMapper.map_metrics_to_resource, in place
AggregateAppLevel(h, chunk, children) ==
    [r \in ResourceIds |->
        IF \E i \in 1..(FirstMissing(chunk, children) - 1) : chunk[i] = r
        THEN Computed
        ELSE h[r]]

\* self.parse_if_output(chunk, file_id=index)
ParseIfOutput(c) ==
    /\ c \in Submitted
    /\ wpc[c] = "evaluated"
    /\ fileUsers' = [fileUsers EXCEPT ![FileId(c)] = @ \cup {c}]
    /\ LET out == outFile[FileId(c)] IN
       \/ /\ out.status # "success"
          /\ wpc' = [wpc EXCEPT ![c] = "failed"]
          /\ wexc' = [wexc EXCEPT ![c] =
                         [kind |-> "IF_EXECUTION_FAILED", fileId |-> FileId(c)]]
          /\ UNCHANGED heap
       \/ /\ out.status = "success"
          /\ heap' = AggregateAppLevel(heap, Chunk(c), out.children)
          /\ \/ /\ FirstMissing(Chunk(c), out.children) <= Len(Chunk(c))
                /\ wpc' = [wpc EXCEPT ![c] = "failed"]
                /\ wexc' = [wexc EXCEPT ![c] = [kind |-> "KeyError", fileId |-> 0]]
             \/ /\ FirstMissing(Chunk(c), out.children) > Len(Chunk(c))
                /\ wpc' = [wpc EXCEPT ![c] = "parsed"]
                /\ UNCHANGED wexc
    /\ UNCHANGED <<auxVars, queryVars, daemonVars, outOfOrder, profile, inputList,
                   vms, chunkSize, chunks, submitted,
                   outFile, lock, enginePc, engineResult>>

\* with lock: (acquire)
AcquireLock(c) ==
    /\ c \in Submitted
    /\ wpc[c] = "parsed"
    /\ lock = {}
    /\ lock' = {c}
    /\ wpc' = [wpc EXCEPT ![c] = "locked"]
    /\ UNCHANGED <<auxVars, queryVars, daemonVars, outOfOrder, profile, inputList,
                   vms, heap, chunkSize, chunks, submitted,
                   wexc, outFile, fileUsers, enginePc, engineResult>>

\* the write-back without the chunk's offset
WriteBackIndexNoOffset(c, i) == i
\* vms[index * chunk_size + i] = vm (0-based) for i, vm in enumerate(chunk)
WriteBackIndex(c, i) == c * chunkSize + i

\* for i, vm in enumerate(chunk): vms[index * chunk_size + i] = vm; release
WriteBack(c) ==
    /\ c \in Submitted
    /\ wpc[c] = "locked"
    /\ vms' = [k \in 1..Len(vms) |->
                 IF \E i \in 0..(Len(Chunk(c)) - 1) : WriteBackIndex(c, i) + 1 = k
                 THEN Chunk(c)[(CHOOSE i \in 0..(Len(Chunk(c)) - 1) :
                                    WriteBackIndex(c, i) + 1 = k) + 1]
                 ELSE vms[k]]
    /\ lock' = {}
    /\ outOfOrder' = (outOfOrder \/ \E d \in Submitted : d < c /\ d \notin Finished)
    /\ wpc' = [wpc EXCEPT ![c] = "done"]
    /\ UNCHANGED <<auxVars, queryVars, daemonVars, profile, inputList,
                   heap, chunkSize, chunks, submitted,
                   wexc, outFile, fileUsers, enginePc, engineResult>>

Next ==
    \/ Split
    \/ Submit
    \/ WaitAndReturn
    \/ \E c \in ChunkIds : StartChunk(c)
    \/ \E c \in ChunkIds : RunIf(c)
    \/ \E c \in ChunkIds : ParseIfOutput(c)
    \/ \E c \in ChunkIds : AcquireLock(c)
    \/ \E c \in ChunkIds : WriteBack(c)

Spec == Init /\ [][Next]_vars

(***************************************************************************)
(* CrudThanosApp.exec_query.                                               *)
(***************************************************************************)
\* what one make_request() call can do: a response of some content type,
\* or one of the httpx errors it translates
Responses == {"html", "json", "badjson"}
RequestErrors == {"timeout", "connect", "httperror"}
RequestOutcomes == Responses \cup RequestErrors

\* make_request(): the ThanosError raised for each httpx error
RequestErrorCode(o) ==
    IF o = "timeout" THEN THANOS_TIMEOUT
    ELSE IF o = "connect" THEN THANOS_CONNECTION_ERROR
    ELSE THANOS_QUERY_FAILED

\* "text/html" in response.headers.get("Content-Type", "")
IsHtml(r) == r = "html"

InitQuery ==
    /\ AuxIdle
    /\ EngineIdle
    /\ DaemonIdle
    /\ qpc = "request"
    /\ attempt = 0
    /\ response = "none"
    /\ qlog = <<>>
    /\ refreshes = 0
    /\ qresult = NoResult

\* response = await make_request()   (line 149)
FirstRequest ==
    /\ qpc = "request"
    /\ \E o \in RequestOutcomes :
          /\ qlog' = Append(qlog, o)
          /\ \/ /\ o \in Responses
                /\ response' = o
                /\ qpc' = "loop"
                /\ UNCHANGED qresult
             \/ /\ o \in RequestErrors
                /\ qresult' = [kind |-> "ThanosError", code |-> RequestErrorCode(o)]
                /\ qpc' = "done"
                /\ UNCHANGED response
    /\ UNCHANGED <<auxVars, engineVars, daemonVars, attempt, refreshes>>

\* attempt == retry_attempts - 1, the test that turns a caught exception
\* into TokenError
IsLastAttempt(a) == a = RetryAttempts - 1

\* one iteration of the for loop whose response is HTML: refresh the headers
\* and repeat the request inside try / except Exception
RefreshAndRetry ==
    /\ qpc = "loop"
    /\ attempt < RetryAttempts
    /\ IsHtml(response)
    /\ refreshes' = refreshes + 1
    /\ \/ \* get_headers() raises
          /\ UNCHANGED <<qlog, response>>
          /\ IF IsLastAttempt(attempt)
             THEN /\ qresult' = [kind |-> "TokenError",
                                 code |-> AUTH_TOKEN_REFRESH_FAILED]
                  /\ qpc' = "done"
                  /\ UNCHANGED attempt
             ELSE /\ attempt' = attempt + 1
                  /\ UNCHANGED <<qresult, qpc>>
       \/ \* get_headers() returns, make_request() is repeated
          \E o \in RequestOutcomes :
             /\ qlog' = Append(qlog, o)
             /\ \/ /\ o \in Responses
                   /\ response' = o
                   /\ attempt' = attempt + 1
                   /\ UNCHANGED <<qresult, qpc>>
                \/ /\ o \in RequestErrors
                   /\ UNCHANGED response
                   /\ IF IsLastAttempt(attempt)
                      THEN /\ qresult' = [kind |-> "TokenError",
                                          code |-> AUTH_TOKEN_REFRESH_FAILED]
                           /\ qpc' = "done"
                           /\ UNCHANGED attempt
                      ELSE /\ attempt' = attempt + 1
                           /\ UNCHANGED <<qresult, qpc>>
    /\ UNCHANGED <<auxVars, engineVars, daemonVars>>

\* one iteration whose response is not HTML: break
BreakLoop ==
    /\ qpc = "loop"
    /\ attempt < RetryAttempts
    /\ ~IsHtml(response)
    /\ qpc' = "parse"
    /\ UNCHANGED <<auxVars, engineVars, daemonVars, attempt, response, qlog, refreshes,
                   qresult>>

\* the else clause of the for loop: the range is exhausted without a break
LoopExhausted ==
    /\ qpc = "loop"
    /\ attempt = RetryAttempts
    /\ qresult' = [kind |-> "TokenError", code |-> AUTH_TOKEN_REFRESH_FAILED]
    /\ qpc' = "done"
    /\ UNCHANGED <<auxVars, engineVars, daemonVars, attempt, response, qlog, refreshes>>

\* return get_result_from_response(response), ThanosError when it raises
ParseResponse ==
    /\ qpc = "parse"
    /\ qresult' = IF response = "json"
                  THEN [kind |-> "result", code |-> Len(qlog)]
                  ELSE [kind |-> "ThanosError", code |-> THANOS_INVALID_RESPONSE]
    /\ qpc' = "done"
    /\ UNCHANGED <<auxVars, engineVars, daemonVars, attempt, response, qlog, refreshes>>

NextQuery ==
    \/ FirstRequest
    \/ RefreshAndRetry
    \/ BreakLoop
    \/ LoopExhausted
    \/ ParseResponse

SpecQuery == InitQuery /\ [][NextQuery]_vars

\* exec_query is one coroutine: every await in it returns or raises (the
\* httpx client has a timeout), so a step that can be taken is taken
SpecQueryLive == InitQuery /\ [][NextQuery]_vars /\ WF_vars(NextQuery)

(***************************************************************************)
(* CarbonDaemon.run.                                                       *)
(***************************************************************************)
ExceptionKinds == {"KnownException", "Exception"}

InitDaemon ==
    /\ AuxIdle
    /\ EngineIdle
    /\ QueryIdle
    /\ daemonPc = "read"
    /\ stepLog = <<>>
    /\ thrown = NoThrow
    /\ writerArg = <<>>
    /\ daemonResult = NoDaemonResult

\* run() without the second handler: only KnownException is caught
RunHandlerKnownOnly(kind) ==
    IF kind = "KnownException"
    THEN [kind |-> "returned", success |-> FALSE, vm_count |-> 0,
          error_message |-> "known error during daemon execution"]
    ELSE [kind |-> "raised", success |-> FALSE, vm_count |-> 0,
          error_message |-> ""]

\* the two handlers of run(): except KnownException / except Exception
RunHandler(kind) ==
    IF kind = "KnownException"
    THEN [kind |-> "returned", success |-> FALSE, vm_count |-> 0,
          error_message |-> "known error during daemon execution"]
    ELSE [kind |-> "returned", success |-> FALSE, vm_count |-> 0,
          error_message |-> "unexpected error during daemon execution"]

\* a run() that does not test the reader's list
NoVmsNever(list) == FALSE
\* if not vms:
NoVms(list) == Len(list) = 0

\* vms = self._read_infrastructure_data(); if not vms: raise KnownException
DaemonRead ==
    /\ daemonPc = "read"
    /\ stepLog' = Append(stepLog, "read")
    /\ \/ \* create_reader or read_files raises; logged and re-raised
          \E k \in ExceptionKinds :
             /\ thrown' = [by |-> "reader", kind |-> k]
             /\ daemonResult' = RunHandler(k)
             /\ daemonPc' = "done"
             /\ UNCHANGED <<inputList, vms>>
       \/ \* the reader returns a list of n virtual machines
          \E n \in 0..MaxResources :
             /\ inputList' = [i \in 1..n |-> i]
             /\ vms' = inputList'
             /\ IF NoVms(inputList')
                THEN /\ daemonResult' = RunHandler("KnownException")
                     /\ daemonPc' = "done"
                ELSE /\ daemonPc' = "process"
                     /\ UNCHANGED daemonResult
             /\ UNCHANGED thrown
    /\ UNCHANGED <<auxVars, queryVars, writerArg, profile, heap, chunkSize, chunks,
                   submitted, wpc, wexc, outFile, fileUsers, lock, enginePc,
                   engineResult, outOfOrder>>

\* _process_carbon_calculations: ioc_util.resolve(CarbonService, "IFVm", ...),
\* then carbon_service.run_engine(vms) is entered
DaemonProcess ==
    /\ daemonPc = "process"
    /\ stepLog' = Append(stepLog, "process")
    /\ \/ \* resolve raises (the service constructor reads its template files)
          /\ thrown' = [by |-> "carbon_service", kind |-> "KnownException"]
          /\ daemonResult' = RunHandler("KnownException")
          /\ daemonPc' = "done"
          /\ UNCHANGED enginePc
       \/ \* resolve returns None: RuntimeError
          /\ thrown' = [by |-> "carbon_service", kind |-> "Exception"]
          /\ daemonResult' = RunHandler("Exception")
          /\ daemonPc' = "done"
          /\ UNCHANGED enginePc
       \/ \* resolve returns the IFVMService; run_engine(vms) starts
          /\ enginePc' = "split"
          /\ daemonPc' = "engine"
          /\ UNCHANGED <<thrown, daemonResult>>
    /\ UNCHANGED <<auxVars, queryVars, writerArg, profile, inputList, vms, heap,
                   chunkSize, chunks, submitted, wpc, wexc, outFile,
                   fileUsers, lock, engineResult, outOfOrder>>

\* processed_vms = carbon_service.run_engine(vms) returns or raises
DaemonEngineDone ==
    /\ daemonPc = "engine"
    /\ enginePc = "done"
    /\ IF engineResult.kind = "returned"
       THEN /\ daemonPc' = "write"
            /\ UNCHANGED <<thrown, daemonResult>>
       ELSE /\ thrown' = [by |-> "carbon_service", kind |-> "Exception"]
            /\ daemonResult' = RunHandler("Exception")
            /\ daemonPc' = "done"
    /\ UNCHANGED <<auxVars, engineVars, queryVars, stepLog, writerArg>>

\* _write_results(processed_vms): create_writer(config, vms), then
\* writer.upload_compute_report(); on return the success result is built
DaemonWrite ==
    /\ daemonPc = "write"
    /\ stepLog' = Append(stepLog, "write")
    /\ writerArg' = vms
    /\ \/ \E k \in ExceptionKinds :
             /\ thrown' = [by |-> "writer", kind |-> k]
             /\ daemonResult' = RunHandler(k)
       \/ /\ daemonResult' = [kind |-> "returned", success |-> TRUE,
                              vm_count |-> Len(vms), error_message |-> ""]
          /\ UNCHANGED thrown
    /\ daemonPc' = "done"
    /\ UNCHANGED <<auxVars, engineVars, queryVars>>

NextDaemon ==
    \/ DaemonRead
    \/ DaemonProcess
    \/ DaemonEngineDone
    \/ DaemonWrite
    \/ Split
    \/ Submit
    \/ WaitAndReturn
    \/ \E c \in ChunkIds : StartChunk(c)
    \/ \E c \in ChunkIds : RunIf(c)
    \/ \E c \in ChunkIds : ParseIfOutput(c)
    \/ \E c \in ChunkIds : AcquireLock(c)
    \/ \E c \in ChunkIds : WriteBack(c)

SpecDaemon == InitDaemon /\ [][NextDaemon]_vars

(***************************************************************************)
(* PaasCiMapper.calculate_ci and the tables it reads.                      *)
(***************************************************************************)
\* CARBON_INTENSITY_EUROPE = 281
CARBON_INTENSITY_EUROPE == 281

\* REGION_TO_COUNTRY_CARBON_INTENSITY, entry by entry
REGION_TO_COUNTRY_CARBON_INTENSITY ==
    ("australiaeast" :> [country |-> "New South Wales", carbon_intensity |-> 552]) @@
    ("centralus" :> [country |-> "Iowa", carbon_intensity |-> 384]) @@
    ("eastasia" :> [country |-> "Hong Kong", carbon_intensity |-> 560]) @@
    ("eastus" :> [country |-> "Virginia", carbon_intensity |-> 384]) @@
    ("eastus2" :> [country |-> "Virginia", carbon_intensity |-> 384]) @@
    ("francecentral" :> [country |-> "France", carbon_intensity |-> 44]) @@
    ("francesouth" :> [country |-> "France", carbon |-> 44]) @@
    ("germanywestcentral" :> [country |-> "Germany", carbon_intensity |-> 344]) @@
    ("northcentralus" :> [country |-> "Illinois", carbon_intensity |-> 384]) @@
    ("northeurope" :> [country |-> "Ireland", carbon_intensity |-> 280]) @@
    ("southeastasia" :> [country |-> "Singapore", carbon_intensity |-> 499]) @@
    ("swedencentral" :> [country |-> "Sweden", carbon_intensity |-> 36]) @@
    ("uaenorth" :> [country |-> "Dubai", carbon_intensity |-> 493]) @@
    ("uksouth" :> [country |-> "London", carbon_intensity |-> 211]) @@
    ("westeurope" :> [country |-> "Netherlands", carbon_intensity |-> 253]) @@
    ("westus" :> [country |-> "California", carbon_intensity |-> 384]) @@
    ("westus2" :> [country |-> "Washington", carbon_intensity |-> 384]) @@
    ("centralindia" :> [country |-> "India", carbon_intensity |-> 708])

CiReturned(v) == [kind |-> "returned", value |-> v, exc |-> "none"]
CiRaised(e) == [kind |-> "raised", value |-> 0, exc |-> e]

\* calculate_ci(zone): the table entry's "carbon_intensity", or the European
\* average for a zone that is not in the table; subscripting an entry that
\* has no "carbon_intensity" key raises KeyError
CalculateCi(zone) ==
    IF zone \in DOMAIN REGION_TO_COUNTRY_CARBON_INTENSITY
    THEN IF "carbon_intensity" \in DOMAIN REGION_TO_COUNTRY_CARBON_INTENSITY[zone]
         THEN CiReturned(REGION_TO_COUNTRY_CARBON_INTENSITY[zone].carbon_intensity)
         ELSE CiRaised("KeyError")
    ELSE CiReturned(CARBON_INTENSITY_EUROPE)

\* ZONES, entry by entry; a key is the sequence of its characters
ZONES ==
    (<<"E", "U", "S">> :> "eastus") @@
    (<<"W", "U", "S">> :> "westus") @@
    (<<"N", "E">> :> "northeurope") @@
    (<<"E", "U", "N">> :> "northeurope") @@
    (<<"I", "R", "L">> :> "northeurope") @@
    (<<"F", "C">> :> "francecentral") @@
    (<<"S", "A">> :> "southeastasia") @@
    (<<"G", "W", "C">> :> "germanywestcentral") @@
    (<<"E", "R", "D">> :> "germanywestcentral") @@
    (<<"M", "U", "C">> :> "germanywestcentral") @@
    (<<"C", "D", "F">> :> "germanywestcentral") @@
    (<<"C", "D", "F", "D", "E", "V">> :> "germanywestcentral") @@
    (<<"N", "L", "D">> :> "westeurope") @@
    (<<"W", "E">> :> "westeurope") @@
    (<<"N", "G", "I">> :> "northeurope") @@
    (<<"N", "E", "T">> :> "westeurope") @@
    (<<"N", "C", "E">> :> "francesouth")

Digits == {"0", "1", "2", "3", "4", "5", "6", "7", "8", "9"}

\* str.upper(), on the lower-case letters that the inputs contain
Upper(c) ==
    CASE c = "e" -> "E" [] c = "u" -> "U" [] c = "s" -> "S" [] c = "w" -> "W"
      [] c = "n" -> "N" [] c = "c" -> "C" [] c = "p" -> "P" [] c = "r" -> "R"
      [] c = "d" -> "D" [] c = "g" -> "G" [] c = "h" -> "H" [] c = "k" -> "K"
      [] c = "l" -> "L" [] c = "o" -> "O" [] OTHER -> c

UpperAll(chars) == [i \in 1..Len(chars) |-> Upper(chars[i])]

\* remove_unnecessary: re.sub(r"\d", "", string)
RemoveUnnecessary(chars) == SelectSeq(chars, LAMBDA c : c \notin Digits)

\* the characters of a PaaS value given as its hyphen-separated parts
RECURSIVE JoinParts(_)
JoinParts(parts) ==
    IF Len(parts) = 0 THEN <<>>
    ELSE IF Len(parts) = 1 THEN parts[1]
    ELSE parts[1] \o <<"-">> \o JoinParts(Tail(parts))

\* __extract_zone_from_paas: the zone of the whole value, else of the first
\* hyphen-separated part that is a key of ZONES, else None
ExtractZoneFromPaas(parts) ==
    LET direct_loc == RemoveUnnecessary(UpperAll(JoinParts(parts)))
        locs == [i \in 1..Len(parts) |-> RemoveUnnecessary(UpperAll(parts[i]))]
        hits == {i \in 1..Len(parts) : locs[i] \in DOMAIN ZONES}
    IN  IF direct_loc \in DOMAIN ZONES THEN ZONES[direct_loc]
        ELSE IF hits # {}
             THEN ZONES[locs[CHOOSE i \in hits : \A j \in hits : i <= j]]
             ELSE "None"

\* get_ci_from_paas
GetCiFromPaas(parts) == CalculateCi(ExtractZoneFromPaas(parts))

\* most calls of one behaviour
MaxCiCalls == 2

\* zones handed to calculate_ci: the regions of the table, the zones ZONES
\* yields, None and a zone that is in no table
ZoneInputs ==
    DOMAIN REGION_TO_COUNTRY_CARBON_INTENSITY
        \cup {ZONES[k] : k \in DOMAIN ZONES} \cup {"None", "example_zone"}

\* parts of the PaaS values handed to get_ci_from_paas
PartInputs ==
    DOMAIN ZONES \cup {<<"p", "r", "d">>, <<"e", "u", "s", "2">>, <<"n", "c", "e", "1">>}

PaasInputs ==
    {<<a>> : a \in PartInputs} \cup {<<a, b>> : a \in {<<"p", "r", "d">>}, b \in PartInputs}

InitCi ==
    /\ CoreIdle
    /\ MoreIdle
    /\ ReaderIdle
    /\ ArgosIdle
    /\ IfIdle
    /\ ciCache = <<>>
    /\ ciCalls = 0
    /\ ciResult = NoCiResult

ciFrame == <<coreVars, readerVars, argosVars, ifVars, moreVars>>

\* calculate_ci under lru_cache: a cached zone gives the cached value, any
\* other zone runs the body, whose return value is cached (an exception is not)
CachedCalculateCi(zone) ==
    /\ ciResult' = IF zone \in DOMAIN ciCache THEN CiReturned(ciCache[zone])
                   ELSE CalculateCi(zone)
    /\ ciCache' = IF zone \notin DOMAIN ciCache /\ CalculateCi(zone).kind = "returned"
                  THEN ciCache @@ (zone :> CalculateCi(zone).value)
                  ELSE ciCache

\* a caller calls PaasCiMapper.calculate_ci(zone)
CallCalculateCi(zone) ==
    /\ ciCalls < MaxCiCalls
    /\ ciCalls' = ciCalls + 1
    /\ CachedCalculateCi(zone)
    /\ UNCHANGED ciFrame

\* a caller calls PaasCiMapper.get_ci_from_paas(paas)
CallGetCiFromPaas(parts) ==
    /\ ciCalls < MaxCiCalls
    /\ ciCalls' = ciCalls + 1
    /\ CachedCalculateCi(ExtractZoneFromPaas(parts))
    /\ UNCHANGED ciFrame

NextCi ==
    \/ \E zone \in ZoneInputs : CallCalculateCi(zone)
    \/ \E parts \in PaasInputs : CallGetCiFromPaas(parts)

SpecCi == InitCi /\ [][NextCi]_vars

(***************************************************************************)
(* The compute readers: read_files, _process_local_files /                 *)
(* _process_blob_files and Reader.process_csv_data, one CSV row at a time. *)
(***************************************************************************)
\* most entries of self.file_names
MaxFiles == 2
\* most data rows of one CSV file
MaxRows == 2

VmIds == {"vm-a", "vm-b"}
\* contents of the cells AverageCpuPercentage and DiskSizeGb
Cells == {"", "50", "abc"}
\* contents of the cell Region
RegionCells == {"westeurope", "francesouth", "-"}
\* the strings float() accepts, with their values
NumericCells == ("50" :> 50) @@ ("24" :> 24) @@ ("48" :> 48) @@ ("-24" :> -24)

Rows == [Id : VmIds, Region : RegionCells, AverageCpuPercentage : Cells,
         DiskSizeGb : Cells, Time : {"t"}]

\* str_to_float: float(string) if string else 0.0; float() raises ValueError
\* for a string that is not a number
StrToFloat(string) ==
    IF string = ""
    THEN [ok |-> TRUE, value |-> 0]
    ELSE IF string \in DOMAIN NumericCells
         THEN [ok |-> TRUE, value |-> NumericCells[string]]
         ELSE [ok |-> FALSE, value |-> 0]

\* create_vm: the region handed to calculate_ci
CreateVmRegion(row) ==
    IF row.Region # "-" /\ row.Region # "" THEN row.Region ELSE "germanywestcentral"

\* PUE_AZURE = 1.185, in thousandths
PUE_AZURE == 1185
\* "pue: float = 1" of VirtualMachine, in thousandths
DefaultPue == 1000

\* a create_vm that leaves pue to the default of the schema
CreateVmDefaultPue(row, ci) ==
    [id |-> row.Id, region |-> row.Region, carbon_intensity |-> ci,
     cpu_util |-> <<>>, time_points |-> <<>>, storage_size |-> <<>>,
     pue |-> DefaultPue]
\* create_vm(row, vm_id, vm_size), given the carbon intensity
CreateVm(row, ci) ==
    [id |-> row.Id, region |-> row.Region, carbon_intensity |-> ci,
     cpu_util |-> <<>>, time_points |-> <<>>, storage_size |-> <<>>,
     pue |-> PUE_AZURE]

\* position of vm_id in vm_dict, 0 when "vm_id not in vm_dict"
VmIndex(dict, vm_id) ==
    IF \E i \in 1..Len(dict) : dict[i].id = vm_id
    THEN CHOOSE i \in 1..Len(dict) : dict[i].id = vm_id
    ELSE 0

\* vm_dict after "if vm_id not in vm_dict: vm_dict[vm_id] = create_vm(...)"
WithVm(dict, row) ==
    IF VmIndex(dict, row.Id) = 0
    THEN Append(dict, CreateVm(row, CalculateCi(CreateVmRegion(row)).value))
    ELSE dict

\* vm_dict[vm_id].cpu_util.append(str_to_float(...) / 100); cpu_util is kept
\* in hundredths, so the quotient of a percentage p is the entry p
AppendCpu(dict, row) ==
    LET i == VmIndex(dict, row.Id) IN
    [dict EXCEPT ![i].cpu_util =
        Append(@, StrToFloat(row.AverageCpuPercentage).value)]

\* vm_dict[vm_id].time_points.append(row["Time"])
AppendTime(dict, row) ==
    LET i == VmIndex(dict, row.Id) IN
    [dict EXCEPT ![i].time_points = Append(@, row.Time)]

\* vm_dict[vm_id].storage_size.append(str_to_float(row["DiskSizeGb"]))
AppendStorage(dict, row) ==
    LET i == VmIndex(dict, row.Id) IN
    [dict EXCEPT ![i].storage_size = Append(@, StrToFloat(row.DiskSizeGb).value)]

\* the statement of the loop body of process_csv_data at which the row raises:
\* "create" (KeyError out of create_vm), "cpu" or "disk" (ValueError out of
\* str_to_float), "none" when the body completes
RowFailure(dict, row) ==
    IF VmIndex(dict, row.Id) = 0 /\ CalculateCi(CreateVmRegion(row)).kind = "raised"
    THEN "create"
    ELSE IF ~StrToFloat(row.AverageCpuPercentage).ok
         THEN "cpu"
         ELSE IF ~StrToFloat(row.DiskSizeGb).ok THEN "disk" ELSE "none"

\* vm_dict when the loop body is left, normally or by the exception
AfterRow(dict, row) ==
    LET failure == RowFailure(dict, row) IN
    IF failure = "create" THEN dict
    ELSE IF failure = "cpu" THEN WithVm(dict, row)
    ELSE IF failure = "disk" THEN AppendTime(AppendCpu(WithVm(dict, row), row), row)
    ELSE AppendStorage(AppendTime(AppendCpu(WithVm(dict, row), row), row), row)

readerFrame == <<coreVars, ciVars, argosVars, ifVars, moreVars>>

InitReader ==
    /\ CoreIdle
    /\ MoreIdle
    /\ CiIdle
    /\ ArgosIdle
    /\ IfIdle
    /\ readerPc = "next_file"
    /\ fileCount \in 1..MaxFiles
    /\ fileIndex = 0
    /\ rowsLeft = 0
    /\ vm_dict = <<>>
    /\ missing_files = {}
    /\ readerResult = NoVmList
    /\ fileErrors = {}

\* _read_file_data / _download_blob_data returns None: the file is recorded
\* as missing and the loop continues
ReadMissingFile ==
    /\ readerPc = "next_file"
    /\ fileIndex < fileCount
    /\ missing_files' = missing_files \cup {fileIndex + 1}
    /\ fileIndex' = fileIndex + 1
    /\ UNCHANGED <<readerFrame, readerPc, fileCount, rowsLeft, vm_dict, readerResult,
                   fileErrors>>

\* the errors _read_file_data raises as KnownException: PermissionError gives
\* FILE_PERMISSION_DENIED, any other exception FILE_READ_ERROR
FileReadErrors == {"FILE_PERMISSION_DENIED", "FILE_READ_ERROR"}

\* _read_file_data raises KnownException(code); "except Exception" of the file
\* loop logs it, records the file as missing and goes on with the next file
ReadFileRaises(code) ==
    /\ readerPc = "next_file"
    /\ fileIndex < fileCount
    /\ fileErrors' = fileErrors \cup {[file |-> fileIndex + 1, error |-> code]}
    /\ missing_files' = missing_files \cup {fileIndex + 1}
    /\ fileIndex' = fileIndex + 1
    /\ UNCHANGED <<readerFrame, readerPc, fileCount, rowsLeft, vm_dict, readerResult>>

\* process_csv_data returns False (len(rows) == 1: the header only)
ReadEmptyCsv ==
    /\ readerPc = "next_file"
    /\ fileIndex < fileCount
    /\ fileIndex' = fileIndex + 1
    /\ UNCHANGED <<readerFrame, readerPc, fileCount, rowsLeft, vm_dict, missing_files,
                   readerResult, fileErrors>>

\* process_csv_data starts to iterate over the rows of a file
OpenCsv ==
    /\ readerPc = "next_file"
    /\ fileIndex < fileCount
    /\ \E n \in 1..MaxRows : rowsLeft' = n
    /\ readerPc' = "in_file"
    /\ UNCHANGED <<readerFrame, fileCount, fileIndex, vm_dict, missing_files,
                   readerResult, fileErrors>>

\* one iteration of "for row in csv_reader"; an exception leaves
\* process_csv_data, is caught by "except Exception" of the file loop, which
\* records the file as missing and goes on with the next file
ProcessRow(row) ==
    /\ readerPc = "in_file"
    /\ rowsLeft > 0
    /\ vm_dict' = AfterRow(vm_dict, row)
    /\ IF RowFailure(vm_dict, row) # "none"
       THEN /\ missing_files' = missing_files \cup {fileIndex + 1}
            /\ fileErrors' = fileErrors \cup
                   {[file |-> fileIndex + 1, error |-> RowFailure(vm_dict, row)]}
            /\ rowsLeft' = 0
            /\ fileIndex' = fileIndex + 1
            /\ readerPc' = "next_file"
       ELSE /\ rowsLeft' = rowsLeft - 1
            /\ fileIndex' = IF rowsLeft = 1 THEN fileIndex + 1 ELSE fileIndex
            /\ readerPc' = IF rowsLeft = 1 THEN "next_file" ELSE "in_file"
            /\ UNCHANGED <<missing_files, fileErrors>>
    /\ UNCHANGED <<readerFrame, fileCount, readerResult>>

\* return list(vm_dict.values())
ReturnVms ==
    /\ readerPc = "next_file"
    /\ fileIndex = fileCount
    /\ readerResult' = [kind |-> "returned", vms |-> vm_dict]
    /\ readerPc' = "returned"
    /\ UNCHANGED <<readerFrame, fileCount, fileIndex, rowsLeft, vm_dict, missing_files,
                   fileErrors>>

NextReader ==
    \/ ReadMissingFile
    \/ \E code \in FileReadErrors : ReadFileRaises(code)
    \/ ReadEmptyCsv
    \/ OpenCsv
    \/ \E row \in Rows : ProcessRow(row)
    \/ ReturnVms

SpecReader == InitReader /\ [][NextReader]_vars

(***************************************************************************)
(* The /run-engine/ endpoint run_engine_for_selected_resources and         *)
(* ArgosService.retrieve_telemetry_data with parse_pod_data,               *)
(* split_pods_by_resource and create_resource.                             *)
(***************************************************************************)
\* number of desired timestamps between interval_start and interval_end
MaxGrid == 2

\* ErrorCode values
DATA_FETCH_TIMEOUT == 3002
DATA_FETCH_NO_RESULTS == 3003
COMPUTATION_FAILED == 6001

\* PaaS values "prd-we1", "eus2" and "prd-nce1"
PaasWe == <<<<"p", "r", "d">>, <<"w", "e", "1">>>>
PaasEus == <<<<"e", "u", "s", "2">>>>
PaasNce == <<<<"p", "r", "d">>, <<"n", "c", "e", "1">>>>

\* the pods that report for the clusters of cluster group g, in the order
\* of the response, and the application label of each
GroupPods == <<<<"p1", "p2">>, <<"p3">>>>
PodApp == ("p1" :> "shop") @@ ("p2" :> "pay") @@ ("p3" :> "shop")

\* tasks of retrieve_telemetry_data: CPU_UTIL, REQUESTED_CORES, REQUESTED_BYTES,
\* each named by the Pod field that parse_pod_data assigns for it
Tasks == <<"cpu_util", "requested_cpu", "requested_memory">>

\* get_timestamps: the grid of n timestamps
GetTimestamps(n) == [i \in 1..n |-> i]

\* group_clusters_by_level(clusters, 1)
GroupClustersByLevel(cluster_list) == MakeChunks(cluster_list, 1)

\* a metric response: for each pod of a subset of the group's pods, in the
\* order of the group, a series of n[uid] samples, every sample "1"
PodData(g, present, n) ==
    LET uids == SelectSeq(GroupPods[g], LAMBDA u : u \in present) IN
    [i \in 1..Len(uids) |->
        [uid |-> uids[i], app |-> PodApp[uids[i]], paas |-> clusters[g],
         values |-> [k \in 1..n[uids[i]] |-> "1"]]]

\* float(value[1]) of the sample "1"
FloatOf(sample) == IF sample = "1" THEN 1 ELSE 0

\* interpolate_field_data: np.interp onto the grid; it raises ValueError for
\* an empty array of sample points; the samples are all equal, so that the
\* interpolated value at a grid point is that of the nearest sample
InterpolateFieldData(desired_ts, values) ==
    [i \in 1..Len(desired_ts) |-> values[Min(i, Len(values))]]

PodIndex(dict, uid) ==
    IF \E i \in 1..Len(dict) : dict[i].id = uid
    THEN CHOOSE i \in 1..Len(dict) : dict[i].id = uid
    ELSE 0

\* Pod(id=uid, ..., time_points=desired_timestamps)
NewPod(data, ci, desired_ts) ==
    [id |-> data.uid, app |-> data.app, paas |-> data.paas,
     carbon_intensity |-> ci, time_points |-> desired_ts,
     cpu_util |-> <<>>, requested_cpu |-> <<>>, requested_memory |-> <<>>]

\* one iteration of "for data in pod_data" of parse_pod_data
ParseOne(st, data, desired_ts, consumption_type) ==
    LET ci == GetCiFromPaas(data.paas)
        dict == IF PodIndex(st.dict, data.uid) = 0
                THEN Append(st.dict, NewPod(data, ci.value, desired_ts))
                ELSE st.dict
        values_list == [k \in 1..Len(data.values) |-> FloatOf(data.values[k])]
        i == PodIndex(dict, data.uid)
    IN  IF st.exc # "none" THEN st
        ELSE IF ci.kind = "raised" THEN [st EXCEPT !.exc = ci.exc]
        ELSE IF Len(values_list) < Len(desired_ts)
             THEN IF Len(values_list) = 0
                  THEN [dict |-> dict, exc |-> "ValueError"]
                  ELSE [dict |-> [dict EXCEPT ![i][consumption_type] =
                                     InterpolateFieldData(desired_ts, values_list)],
                        exc |-> "none"]
             ELSE [dict |-> [dict EXCEPT ![i][consumption_type] = values_list],
                   exc |-> "none"]

\* parse_pod_data
RECURSIVE ParsePodData(_, _, _, _)
ParsePodData(pod_data, st, desired_ts, consumption_type) ==
    IF pod_data = <<>> THEN st
    ELSE ParsePodData(Tail(pod_data),
                      ParseOne(st, Head(pod_data), desired_ts, consumption_type),
                      desired_ts, consumption_type)

\* the filter of retrieve_telemetry_data that keeps a pod with any one metric
HasSomeMetric(pod) ==
    pod.requested_cpu # <<>> \/ pod.requested_memory # <<>> \/ pod.cpu_util # <<>>
\* "if pod.requested_cpu and pod.requested_memory and pod.cpu_util"
HasAllMetrics(pod) ==
    pod.requested_cpu # <<>> /\ pod.requested_memory # <<>> /\ pod.cpu_util # <<>>

\* pod_telemetries of retrieve_telemetry_data
FilteredPods(dict) == SelectSeq(dict, HasAllMetrics)

\* key(pod): pod.app or pod.paas
KeyOf(pod, by) == IF by = "app" THEN pod.app ELSE pod.paas

\* the keys of groups, in the order in which the dict received them
RECURSIVE GroupKeys(_, _)
GroupKeys(pods, by) ==
    IF pods = <<>> THEN <<>>
    ELSE LET rest == GroupKeys(SubSeq(pods, 1, Len(pods) - 1), by)
             k == KeyOf(pods[Len(pods)], by)
         IN  IF \E i \in 1..Len(rest) : rest[i] = k THEN rest ELSE Append(rest, k)

\* a grouping that appends every pod to every group
PodsOfAnyKey(pods, by, k) == pods
\* groups[key(pod)].append(pod) for every pod: the list of group k
PodsWithKey(pods, by, k) == SelectSeq(pods, LAMBDA pod : KeyOf(pod, by) = k)

\* np.array of the pods' series has one shape
SameShape(pods, field) ==
    \A i, j \in 1..Len(pods) : Len(pods[i][field]) = Len(pods[j][field])

RECURSIVE SumAt(_, _, _)
SumAt(pods, field, t) ==
    IF pods = <<>> THEN 0
    ELSE pods[1][field][t] + SumAt(Tail(pods), field, t)

\* np.sum(np.array([...]), axis=0).tolist()
SumSeries(pods, field) ==
    [t \in 1..Len(pods[1][field]) |-> SumAt(pods, field, t)]
\* np.mean(np.array([...]), axis=0).tolist(); the division is exact for the
\* equal samples of the responses
MeanSeries(pods, field) ==
    [t \in 1..Len(pods[1][field]) |-> SumAt(pods, field, t) \div Len(pods)]

\* create_resource; np.array raises ValueError for series of unequal lengths
CreateResource(resource_cls, resource_key, pods, idx, desired_ts) ==
    IF \A field \in Range(Tasks) : SameShape(pods, field)
    THEN [kind |-> "created", cls |-> resource_cls, id |-> idx,
          name |-> resource_key, pods |-> pods, time_points |-> desired_ts,
          requested_cpu |-> SumSeries(pods, "requested_cpu"),
          requested_memory |-> SumSeries(pods, "requested_memory"),
          cpu_util |-> MeanSeries(pods, "cpu_util")]
    ELSE [kind |-> "ValueError"]

\* split_pods_by_resource with the factory of retrieve_telemetry_data
SplitPodsByResource(pods, by, resource_cls, desired_ts) ==
    LET keys == GroupKeys(pods, by) IN
    [idx \in 1..Len(keys) |->
        CreateResource(resource_cls, keys[idx], PodsWithKey(pods, by, keys[idx]),
                       idx - 1, desired_ts)]

\* the tail of retrieve_telemetry_data: filter, no-data check, split
TelemetryOutcome(dict, by_app, desired_ts) ==
    LET pod_telemetries == FilteredPods(dict)
        result == IF by_app
                  THEN SplitPodsByResource(pod_telemetries, "app", "Application",
                                           desired_ts)
                  ELSE SplitPodsByResource(pod_telemetries, "paas", "Cluster",
                                           desired_ts)
    IN  IF pod_telemetries = <<>>
        THEN [kind |-> "raised", exc |-> "DataFetchError",
              code |-> DATA_FETCH_NO_RESULTS, resources |-> <<>>]
        ELSE IF \E i \in 1..Len(result) : result[i].kind = "ValueError"
             THEN [kind |-> "raised", exc |-> "ValueError", code |-> 0,
                   resources |-> <<>>]
             ELSE [kind |-> "returned", exc |-> "none", code |-> 0,
                   resources |-> result]

RECURSIVE LeadingDigit(_)
\* error_code.value.startswith(d)
LeadingDigit(code) == IF code < 10 THEN code ELSE LeadingDigit(code \div 10)

\* get_status_code_for_error, for data fetch (3...) and computation (6...) codes
GetStatusCodeForError(code) ==
    IF LeadingDigit(code) = 3
    THEN IF code \in {DATA_FETCH_TIMEOUT, THANOS_TIMEOUT} THEN 504
         ELSE IF code \in {DATA_FETCH_NO_RESULTS} THEN 404
         ELSE 502
    ELSE 500

ApiRaised(exc, code) ==
    [kind |-> "raised", exc |-> exc, code |-> code,
     status |-> GetStatusCodeForError(code)]

\* an endpoint whose handlers turn every exception into ComputationError
EndpointHandlerWrapAll(exc, code) == ApiRaised("ComputationError", COMPUTATION_FAILED)
\* "except (DataFetchError, ValidationError, DateValidationError): raise" and
\* "except Exception as e: raise ComputationError(COMPUTATION_FAILED, ...)"
EndpointHandler(exc, code) ==
    IF exc \in {"DataFetchError", "ValidationError", "DateValidationError"}
    THEN ApiRaised(exc, code)
    ELSE ApiRaised("ComputationError", COMPUTATION_FAILED)

InitArgos ==
    /\ CoreIdle
    /\ MoreIdle
    /\ ReaderIdle
    /\ CiIdle
    /\ IfIdle
    /\ argosPc = "query"
    /\ desired_timestamps = GetTimestamps(MaxGrid)
    /\ clusters \in {<<PaasWe, PaasEus>>, <<PaasWe, PaasNce>>}
    /\ applications \in BOOLEAN
    /\ groupIndex = 1
    /\ taskIndex = 1
    /\ interp_pod_telemetries = <<>>
    /\ telemetryResult = NoTelemetry
    /\ apiResult = NoApiResult
    /\ groupFailures = <<>>

argosFrame == <<coreVars, readerVars, ciVars, ifVars, moreVars>>

NumGroups == Len(GroupClustersByLevel(clusters))

\* the loop variables after the current task: the next task of the group,
\* the first task of the next group, or the end of the loops
NextTask ==
    /\ taskIndex' = IF taskIndex < Len(Tasks) THEN taskIndex + 1 ELSE 1
    /\ groupIndex' = IF taskIndex < Len(Tasks) THEN groupIndex ELSE groupIndex + 1
    /\ argosPc' = IF taskIndex = Len(Tasks) /\ groupIndex = NumGroups
                  THEN "filter" ELSE "query"

\* AppDao.exec_query returns pod_data and parse_pod_data parses it; an
\* exception of parse_pod_data is no DataFetchError and leaves
\* retrieve_telemetry_data, whose locals end with it
ParseResponseOf(present, n) ==
    /\ LET st == ParsePodData(PodData(groupIndex, present, n),
                              [dict |-> interp_pod_telemetries, exc |-> "none"],
                              desired_timestamps, Tasks[taskIndex])
       IN  /\ interp_pod_telemetries' = IF st.exc = "none" THEN st.dict ELSE <<>>
           /\ IF st.exc = "none"
              THEN NextTask /\ UNCHANGED telemetryResult
              ELSE /\ telemetryResult' = [kind |-> "raised", exc |-> st.exc,
                                          code |-> 0, resources |-> <<>>]
                   /\ argosPc' = "retrieved"
                   /\ UNCHANGED <<groupIndex, taskIndex>>
    /\ UNCHANGED <<argosFrame, desired_timestamps, clusters, applications, apiResult,
                   groupFailures>>

QueryAndParse ==
    /\ argosPc = "query"
    /\ \E present \in SUBSET Range(GroupPods[groupIndex]) :
          \E n \in [present -> 0..(Len(desired_timestamps) + 1)] :
              ParseResponseOf(present, n)

\* a loop without the handler: the DataFetchError leaves
\* retrieve_telemetry_data
QueryAbortsOnDataFetchError ==
    /\ argosPc = "query"
    /\ groupFailures' = Append(groupFailures,
                               [group |-> groupIndex, exc |-> "DataFetchError"])
    /\ telemetryResult' = [kind |-> "raised", exc |-> "DataFetchError",
                           code |-> THANOS_QUERY_FAILED, resources |-> <<>>]
    /\ argosPc' = "retrieved"
    /\ interp_pod_telemetries' = <<>>
    /\ UNCHANGED <<argosFrame, desired_timestamps, clusters, applications,
                   groupIndex, taskIndex, apiResult>>
\* AppDao.exec_query raises a DataFetchError: "except DataFetchError" logs it
\* and the loop goes on with the next cluster group
QuerySkipsGroup ==
    /\ argosPc = "query"
    /\ groupFailures' = Append(groupFailures,
                               [group |-> groupIndex, exc |-> "DataFetchError"])
    /\ taskIndex' = 1
    /\ groupIndex' = groupIndex + 1
    /\ argosPc' = IF groupIndex = NumGroups THEN "filter" ELSE "query"
    /\ UNCHANGED <<argosFrame, desired_timestamps, clusters, applications,
                   interp_pod_telemetries, telemetryResult, apiResult>>

\* AppDao.exec_query raises TokenError, which is no DataFetchError
QueryRaises ==
    /\ argosPc = "query"
    /\ groupFailures' = Append(groupFailures,
                               [group |-> groupIndex, exc |-> "TokenError"])
    /\ telemetryResult' = [kind |-> "raised", exc |-> "TokenError",
                           code |-> AUTH_TOKEN_REFRESH_FAILED, resources |-> <<>>]
    /\ argosPc' = "retrieved"
    /\ interp_pod_telemetries' = <<>>
    /\ UNCHANGED <<argosFrame, desired_timestamps, clusters, applications,
                   groupIndex, taskIndex, apiResult>>

\* the statements of retrieve_telemetry_data after the loops
FilterAndSplit ==
    /\ argosPc = "filter"
    /\ telemetryResult' = TelemetryOutcome(interp_pod_telemetries, applications,
                                           desired_timestamps)
    /\ argosPc' = "retrieved"
    /\ UNCHANGED <<argosFrame, desired_timestamps, clusters, applications,
                   groupIndex, taskIndex, interp_pod_telemetries, apiResult,
                   groupFailures>>

\* the endpoint after retrieve_telemetry_data: it re-raises or wraps the
\* exception, or runs the carbon engine, which returns or raises
EndpointResponds(engine) ==
    /\ argosPc = "retrieved"
    /\ apiResult' =
          IF telemetryResult.kind = "raised"
          THEN EndpointHandler(telemetryResult.exc, telemetryResult.code)
          ELSE IF engine = "returned"
               THEN [kind |-> "returned", exc |-> "none", code |-> 0, status |-> 200]
               ELSE EndpointHandler(engine, 0)
    /\ argosPc' = "responded"
    /\ UNCHANGED <<argosFrame, desired_timestamps, clusters, applications,
                   groupIndex, taskIndex, interp_pod_telemetries, telemetryResult,
                   groupFailures>>

NextArgos ==
    \/ QueryAndParse
    \/ QuerySkipsGroup
    \/ QueryRaises
    \/ FilterAndSplit
    \/ \E engine \in {"returned", "ValueError", "KnownException"} :
          EndpointResponds(engine)

SpecArgos == InitArgos /\ [][NextArgos]_vars

(***************************************************************************)
(* IFStorageService.get_resource_inputs with the fill_inputs of PStorage,  *)
(* EStorage and MStorage (specification SpecInputs).                       *)
(***************************************************************************)
\* most time points of a storage resource
MaxTimePoints == 2

\* the values of an input record: a number, float("nan"), a date string
Num(n) == [kind |-> "number", v |-> n]
NaN == [kind |-> "nan", v |-> 0]
Date(n) == [kind |-> "date", v |-> n]

Ssd == <<"S", "S", "D">>
Hdd == <<"H", "D", "D">>
Unknown == <<"U", "N", "K", "N", "O", "W", "N">>

\* in units of 2.5e-8 kWh/GBh: 0.0000012, 0.00000065, 0.000000925
STORAGE_POWER_COEFFICIENT_MAPPING ==
    (Ssd :> 48) @@ (Hdd :> 26) @@ (Unknown :> 37)

\* in gCO2e/GB
STORAGE_EMBODIED_COEFFICIENT_MAPPING ==
    (Ssd :> 160) @@ (Hdd :> 20) @@ (Unknown :> 90)

STORAGE_REPLICATION_FACTORS ==
    (<<"L", "R", "S">> :> 3) @@ (<<"Z", "R", "S">> :> 3) @@
    (<<"G", "R", "S">> :> 6) @@ (<<"R", "A", "_", "G", "R", "S">> :> 6) @@
    (<<"G", "Z", "R", "S">> :> 6) @@ (<<"R", "A", "_", "G", "Z", "R", "S">> :> 6)

\* dict.get(key, default)
DictGet(dict, key, default) == IF key \in DOMAIN dict THEN dict[key] ELSE default

\* float * int: nan stays nan
Times(a, k) == IF a.kind = "nan" THEN NaN ELSE Num(a.v * k)

IsNone(res, field) == field \in res.unset

\* the exception PStorage.fill_inputs raises, "none" when it returns:
\* None.upper() is an AttributeError, None * int a TypeError
PStorageRaises(res) ==
    IF IsNone(res, "storage_type") \/ IsNone(res, "replication_type")
    THEN "AttributeError"
    ELSE IF IsNone(res, "size_gb") THEN "TypeError" ELSE "none"

\* a fill_inputs that leaves the replication factor out of the size
PStorageFillInputsUnreplicated(res) ==
    ("storage/requested" :> res.size_gb) @@
    ("power/coefficient" :>
        Num(DictGet(STORAGE_POWER_COEFFICIENT_MAPPING, UpperAll(res.storage_type),
                    STORAGE_POWER_COEFFICIENT_MAPPING[Unknown])))
\* PStorage.fill_inputs when it returns
PStorageFillInputs(res) ==
    ("storage/requested" :>
        Times(res.size_gb,
              DictGet(STORAGE_REPLICATION_FACTORS, UpperAll(res.replication_type), 1))) @@
    ("power/coefficient" :>
        Num(DictGet(STORAGE_POWER_COEFFICIENT_MAPPING, UpperAll(res.storage_type),
                    STORAGE_POWER_COEFFICIENT_MAPPING[Unknown])))

\* EStorage.fill_inputs: int(None) is a TypeError
EStorageRaises(res) == IF IsNone(res, "duration_seconds") THEN "TypeError" ELSE "none"

EStorageFillInputs(res) == ("duration/seconds" :> Num(res.duration_seconds))

\* MStorage.fill_inputs
MStorageRaises(res) == IF IsNone(res, "storage_type") THEN "AttributeError" ELSE "none"

MStorageFillInputs(res) ==
    ("storage/embodied-coefficient" :>
        Num(DictGet(STORAGE_EMBODIED_COEFFICIENT_MAPPING, UpperAll(res.storage_type),
                    STORAGE_EMBODIED_COEFFICIENT_MAPPING[Unknown])))

\* models: Tuple[ModelUtilities] = (PStorage, EStorage, MStorage)
StorageModels == <<"PStorage", "EStorage", "MStorage">>

ModelRaises(model, res) ==
    CASE model = "PStorage" -> PStorageRaises(res)
      [] model = "EStorage" -> EStorageRaises(res)
      [] model = "MStorage" -> MStorageRaises(res)

ModelFillInputs(model, res) ==
    CASE model = "PStorage" -> PStorageFillInputs(res)
      [] model = "EStorage" -> EStorageFillInputs(res)
      [] model = "MStorage" -> MStorageFillInputs(res)

\* the keys of the dict that the model's fill_inputs returns
ModelInputKeys(model) ==
    CASE model = "PStorage" -> {"storage/requested", "power/coefficient"}
      [] model = "EStorage" -> {"duration/seconds"}
      [] model = "MStorage" -> {"storage/embodied-coefficient"}

\* the exceptions that the loop over the models catches
CaughtByInputs == {"AttributeError", "KeyError", "ValueError", "TypeError"}

\* "try: combined_inputs.update(model.fill_inputs(...)) except (...): continue"
\* for the models from position k on
RECURSIVE AddModelInputs(_, _, _)
AddModelInputs(combined_inputs, res, k) ==
    IF k > Len(StorageModels) THEN combined_inputs
    ELSE IF ModelRaises(StorageModels[k], res) \in CaughtByInputs
         THEN AddModelInputs(combined_inputs, res, k + 1)
         ELSE AddModelInputs(ModelFillInputs(StorageModels[k], res) @@ combined_inputs,
                             res, k + 1)

\* len(storage_resource.time_points) if storage_resource.time_points else 1
TimePointsCount(res) == IF res.time_points # <<>> THEN Len(res.time_points) ELSE 1

\* the record for one time_index (0-based); Date(0) is "2025-01-01"
CombinedInputs(res, t) ==
    AddModelInputs(
        ("timestamp" :>
            (IF res.time_points # <<>> THEN Date(res.time_points[t + 1]) ELSE Date(0))) @@
        ("grid/carbon-intensity" :> Num(res.carbon_intensity)),
        res, 1)

StorageTypeInputs == {Ssd, <<"s", "s", "d">>, <<"U", "n", "k", "n", "o", "w", "n">>}
ReplicationInputs == {<<"L", "R", "S">>, <<"g", "r", "s">>, <<"X">>}

\* the resources handed to get_resource_inputs
StorageResourceInputs ==
    [storage_type : StorageTypeInputs,
     replication_type : ReplicationInputs,
     size_gb : {Num(10), NaN},
     duration_seconds : {86400},
     time_points : {[i \in 1..n |-> i] : n \in 0..MaxTimePoints},
     carbon_intensity : {CARBON_INTENSITY_EUROPE},
     unset : SUBSET {"storage_type", "replication_type", "size_gb", "duration_seconds"}]

inputsFrame == <<coreVars, readerVars, ciVars, argosVars, mapVars, runVars, moreVars>>

InitInputs ==
    /\ CoreIdle
    /\ MoreIdle
    /\ ReaderIdle
    /\ CiIdle
    /\ ArgosIdle
    /\ MapIdle
    /\ RunIdle
    /\ inputsPc = "loop"
    /\ storage_resource \in StorageResourceInputs
    /\ time_index = 0
    /\ resource_inputs = <<>>

\* one iteration of "for time_index in range(time_points_count)"
FillTimeIndex ==
    /\ inputsPc = "loop"
    /\ time_index < TimePointsCount(storage_resource)
    /\ resource_inputs' = Append(resource_inputs, CombinedInputs(storage_resource, time_index))
    /\ time_index' = time_index + 1
    /\ UNCHANGED <<inputsFrame, inputsPc, storage_resource>>

\* return resource_inputs
ReturnInputs ==
    /\ inputsPc = "loop"
    /\ time_index = TimePointsCount(storage_resource)
    /\ inputsPc' = "returned"
    /\ UNCHANGED <<inputsFrame, storage_resource, time_index, resource_inputs>>

NextInputs ==
    \/ FillTimeIndex
    \/ ReturnInputs

SpecInputs == InitInputs /\ [][NextInputs]_vars

(***************************************************************************)
(* IFService.get_measurements_from_output and                              *)
(* MetricsMapper.map_metrics_to_resource, as the loop body of              *)
(* aggregate_app_level and aggregate_pod_level (specification SpecMap).    *)
(* Values are in units of 1e-5.                                            *)
(***************************************************************************)
\* most time points in the evaluator output of a resource
MaxOutputs == 2

\* the keys of METRICS_MAPPER, in the order of the dict
MetricKeys ==
    <<"carbon", "energy", "carbon-embodied", "carbon-operational", "cpu/energy",
      "cpu/power", "resources-reserved", "memory/energy", "storage/energy",
      "storage-embodied">>

METRICS_MAPPER ==
    ("carbon" :> [observations |-> "carbon_emitted",
                  aggregated |-> "total_carbon_emitted"]) @@
    ("energy" :> [observations |-> "energy_consumed",
                  aggregated |-> "total_energy_consumed"]) @@
    ("carbon-embodied" :> [observations |-> "carbon_embodied",
                           aggregated |-> "total_carbon_embodied"]) @@
    ("carbon-operational" :> [observations |-> "carbon_operational",
                              aggregated |-> "total_carbon_operational"]) @@
    ("cpu/energy" :> [observations |-> "cpu_energy",
                      aggregated |-> "total_cpu_energy"]) @@
    ("cpu/power" :> [observations |-> "cpu_power", aggregated |-> "None"]) @@
    ("resources-reserved" :> [observations |-> "requested_cpu",
                              aggregated |-> "None"]) @@
    ("memory/energy" :> [observations |-> "memory_energy",
                         aggregated |-> "total_memory_energy"]) @@
    ("storage/energy" :> [observations |-> "storage_energy",
                          aggregated |-> "total_storage_energy"]) @@
    ("storage-embodied" :> [observations |-> "storage_embodied",
                            aggregated |-> "total_storage_embodied"])

\* round(x, 4) of a non-negative value
Round4(x) == ((x + 5) \div 10) * 10

\* position of a metric key in MetricKeys
MetricPosition(key) == CHOOSE k \in 1..Len(MetricKeys) : MetricKeys[k] = key

\* what the evaluator computed for a metric at time point t
OutputValue(key, t) == 10000 * MetricPosition(key) + 1234 * t + 6

RECURSIVE SumOutputs(_, _)
SumOutputs(key, n) == IF n = 0 THEN 0 ELSE SumOutputs(key, n - 1) + OutputValue(key, n)

\* the node of a resource in the evaluator output: every aggregated metric is
\* the sum of that metric over the outputs, so each output carries it
IfOutputOf(keys, n) ==
    [aggregated |-> [key \in keys |-> SumOutputs(key, n)],
     outputs |-> [t \in 1..n |->
                    [key \in keys \cup {"timestamp", "duration"} |->
                        IF key \in keys THEN OutputValue(key, t) ELSE t]]]

\* metrics after "for metric in aggregated_data.keys()"
AggregatedMetrics(out) ==
    [key \in DOMAIN out.aggregated \cup {"timestamp"} |->
        IF key = "timestamp"
        THEN [observations |-> <<>>]
        ELSE [aggregated |-> Round4(out.aggregated[key]), observations |-> <<>>]]

\* a time point of the output lacks a metric of metrics: timepoint[metric]
\* raises KeyError
LacksMetric(out, ms) ==
    \E t \in 1..Len(out.outputs) :
        \E key \in DOMAIN ms : key \notin DOMAIN out.outputs[t]

\* metric_data["observations"].append(round(timepoint[metric], 4) if metric
\* not in ["timestamp", "duration"] else None), for every time point; -1
\* stands for None
WithObservations(out, ms) ==
    [key \in DOMAIN ms |->
        [ms[key] EXCEPT !.observations =
            [t \in 1..Len(out.outputs) |->
                IF key \in {"timestamp", "duration"}
                THEN -1
                ELSE Round4(out.outputs[t][key])]]]

\* get_measurements_from_output when it returns
GetMeasurementsFromOutput(out) == WithObservations(out, AggregatedMetrics(out))

\* setattr of the aggregated value, when attribute_mapping["aggregated"] is set
SetAggregated(res, ms, key) ==
    IF METRICS_MAPPER[key].aggregated # "None"
    THEN [res EXCEPT ![METRICS_MAPPER[key].aggregated] = ms[key].aggregated]
    ELSE res

\* a mapper that resets the attributes of a metric the output lacks
MapMetricOrClear(res, ms, key) ==
    IF key \in DOMAIN ms
    THEN SetAggregated([res EXCEPT ![METRICS_MAPPER[key].observations] =
                                       ms[key].observations], ms, key)
    ELSE [res EXCEPT ![METRICS_MAPPER[key].observations] = <<>>]
\* the body of "for metric_key, attribute_mapping in METRICS_MAPPER.items()"
MapMetric(res, ms, key) ==
    IF key \in DOMAIN ms
    THEN SetAggregated([res EXCEPT ![METRICS_MAPPER[key].observations] =
                                       ms[key].observations], ms, key)
    ELSE res

\* map_metrics_to_resource, for the keys of METRICS_MAPPER from position k on
RECURSIVE MapMetricsToResource(_, _, _)
MapMetricsToResource(ms, res, k) ==
    IF k > Len(MetricKeys) THEN res
    ELSE MapMetricsToResource(ms, MapMetric(res, ms, MetricKeys[k]), k + 1)

ObservationAttributes == {METRICS_MAPPER[key].observations : key \in DOMAIN METRICS_MAPPER}
AggregatedAttributes ==
    {METRICS_MAPPER[key].aggregated : key \in DOMAIN METRICS_MAPPER} \ {"None"}

\* a resource as telemetry retrieval leaves it: no computed field set yet
\* the telemetry fields of ComputeResource and VirtualMachine that the
\* pipeline reads as inputs
InputAttributes ==
    {"time_points", "cpu_util", "requested_cpu", "requested_memory",
     "storage_size", "carbon_intensity"}

FreshResource ==
    [a \in ObservationAttributes \cup AggregatedAttributes \cup InputAttributes |->
        IF a \in {"requested_cpu", "cpu_util"} THEN <<12346, 50000>>
        ELSE IF a = "time_points" THEN <<1, 2>>
        ELSE IF a = "requested_memory" THEN <<25000, 25000>>
        ELSE IF a = "carbon_intensity" THEN CARBON_INTENSITY_EUROPE
        ELSE IF a \in ObservationAttributes \cup {"storage_size"} THEN <<>>
        ELSE 0]

\* a resource that an earlier output was mapped onto, in full
MappedResource ==
    MapMetricsToResource(
        GetMeasurementsFromOutput(IfOutputOf(DOMAIN METRICS_MAPPER, 1)),
        FreshResource, 1)

mapFrame == <<coreVars, readerVars, ciVars, argosVars, inputsVars, runVars, moreVars>>

InitMap ==
    /\ CoreIdle
    /\ MoreIdle
    /\ ReaderIdle
    /\ CiIdle
    /\ ArgosIdle
    /\ InputsIdle
    /\ RunIdle
    /\ mapPc = "measure"
    /\ pod_level \in BOOLEAN
    /\ \E keys \in SUBSET DOMAIN METRICS_MAPPER : \E n \in 0..MaxOutputs :
          if_output = IfOutputOf(keys, n)
    /\ metrics = <<>>
    /\ compute_resource \in {FreshResource, MappedResource}
    /\ resource_before = compute_resource

\* metrics = IFService.get_measurements_from_output(if_output, id)
MeasureOutput ==
    /\ mapPc = "measure"
    /\ IF LacksMetric(if_output, AggregatedMetrics(if_output))
       THEN /\ mapPc' = "raised"
            /\ UNCHANGED metrics
       ELSE /\ mapPc' = "map"
            /\ metrics' = GetMeasurementsFromOutput(if_output)
    /\ UNCHANGED <<mapFrame, pod_level, if_output, compute_resource, resource_before>>

\* MetricsMapper.map_metrics_to_resource(metrics, compute_resource), the last
\* statement of the loop body in aggregate_app_level
MapOutput ==
    /\ mapPc = "map"
    /\ compute_resource' = MapMetricsToResource(metrics, compute_resource, 1)
    /\ mapPc' = IF pod_level THEN "round" ELSE "done"
    /\ UNCHANGED <<mapFrame, pod_level, if_output, metrics, resource_before>>

\* an aggregate_pod_level that leaves pod.cpu_util as it is
LeaveCpuUtil ==
    /\ mapPc = "round"
    /\ mapPc' = "done"
    /\ UNCHANGED <<mapFrame, pod_level, if_output, metrics, compute_resource,
                   resource_before>>
\* pod.cpu_util = [round(i, 4) for i in pod.cpu_util] in aggregate_pod_level
RoundCpuUtil ==
    /\ mapPc = "round"
    /\ compute_resource' =
          [compute_resource EXCEPT !["cpu_util"] =
              [i \in 1..Len(@) |-> Round4(@[i])]]
    /\ mapPc' = "done"
    /\ UNCHANGED <<mapFrame, pod_level, if_output, metrics, resource_before>>

NextMap ==
    \/ MeasureOutput
    \/ MapOutput
    \/ RoundCpuUtil

SpecMap == InitMap /\ [][NextMap]_vars

(***************************************************************************)
(* IFService.run_if followed by parse_if_output, called repeatedly and     *)
(* concurrently on one service object, each caller with a file id of its   *)
(* own as the chunk workers of run_engine are (specification SpecRunIf).   *)
(* The evaluator is a function of the manifest it is given.                *)
(***************************************************************************)
\* most calls of run_if on the service object
MaxRuns == 4

\* the threads calling run_if; file_id is the caller
Callers == {"a", "b"}

\* the resources passed: one resource, the same resource with other
\* telemetry, and another resource
SnapshotA == [id |-> "r1", time_points |-> <<1, 2>>, cpu_util |-> <<10, 20>>,
              carbon_intensity |-> 281, pue |-> 1]
SnapshotB == [id |-> "r1", time_points |-> <<1>>, cpu_util |-> <<30>>,
              carbon_intensity |-> 281, pue |-> 1]
SnapshotC == [id |-> "r2", time_points |-> <<1, 2>>, cpu_util |-> <<20, 10>>,
              carbon_intensity |-> 44, pue |-> 1]
Snapshots == {SnapshotA, SnapshotB, SnapshotC}
NoSnapshot == [id |-> "none", time_points |-> <<>>, cpu_util |-> <<>>,
               carbon_intensity |-> 0, pue |-> 0]

\* self.data after __init__: the pipeline file with its declared models
PipelineData ==
    [hardware_models |-> [model \in {"teads-curve", "sci-o", "sci-e-pue"} |-> "declared"],
     resources |-> <<>>]

\* get_models_info: data["hardware_models"][model] = cls().__dict__
GetModelsInfo(d) ==
    [d EXCEPT !.hardware_models = [model \in DOMAIN @ |-> "config"]]

\* the merged fill_inputs of common_models = [TeadsCurve, SciO, SciEPue] for
\* one time_index (1-based here); cpu_util is in percent of one core
CommonInputs(res, t) ==
    [timestamp |-> res.time_points[t],
     cpu_utilization |-> Min(res.cpu_util[t], 100),
     carbon_intensity |-> res.carbon_intensity,
     pue |-> res.pue]

\* IFService.get_resource_inputs
GetResourceInputs(res) == [t \in 1..Len(res.time_points) |-> CommonInputs(res, t)]

\* get_resource_data: data["resources"] = resources, a new dict
GetResourceData(d, res) ==
    [d EXCEPT !.resources = (res.id :> GetResourceInputs(res))]

\* fill_parser_data
FillData(d, res) == GetResourceData(GetModelsInfo(d), res)

\* self.template.render(data), dumped as the manifest
RenderManifest(d) == [pipeline |-> d.hardware_models, children |-> d.resources]

\* npx if-run: per resource of the manifest, the outputs and the aggregate
\* computed from its inputs under the manifest's pipeline
Evaluate(manifest) ==
    [status |-> "success",
     children |-> [id \in DOMAIN manifest.children |->
                      [outputs |-> [t \in 1..Len(manifest.children[id]) |->
                                       [pipeline |-> DOMAIN manifest.pipeline,
                                        inputs |-> manifest.children[id][t]]],
                       aggregated |-> [pipeline |-> DOMAIN manifest.pipeline,
                                       inputs |-> manifest.children[id]]]]]

NoRunResult == [kind |-> "none", outputs |-> <<>>, aggregated |-> <<>>]

\* aggregate_app_level for the resource: if_output[compute_resource.id] is a
\* KeyError when the output has no such child
ParsedResult(output, res) ==
    IF res.id \in DOMAIN output.children
    THEN [kind |-> "returned", outputs |-> output.children[res.id].outputs,
          aggregated |-> output.children[res.id].aggregated]
    ELSE [kind |-> "KeyError", outputs |-> <<>>, aggregated |-> <<>>]

\* the pipeline as a function of the resource and the roster alone
Assemble(res) ==
    ParsedResult(Evaluate(RenderManifest(FillData(PipelineData, res))), res)

\* a run_if that fills self.data itself
SelfData(c) == "self"
\* data = copy.deepcopy(self.data): a new object, referred to by data alone
CopyTarget(c) == c

runFrame == <<coreVars, readerVars, ciVars, argosVars, inputsVars, mapVars, moreVars>>

InitRunIf ==
    /\ CoreIdle
    /\ MoreIdle
    /\ ReaderIdle
    /\ CiIdle
    /\ ArgosIdle
    /\ InputsIdle
    /\ MapIdle
    /\ runPc = [c \in Callers |-> "idle"]
    /\ runArg = [c \in Callers |-> NoSnapshot]
    /\ dataRef = [c \in Callers |-> "none"]
    /\ dataObjects = [o \in Callers \cup {"self"} |-> PipelineData]
    /\ inFiles = [c \in Callers |-> "absent"]
    /\ outFiles = [c \in Callers |-> "absent"]
    /\ runLog = <<>>

RunsStarted == Len(runLog) + Cardinality({c \in Callers : runPc[c] # "idle"})

\* run_if is called: data = copy.deepcopy(self.data)
CopyData(c, res) ==
    /\ runPc[c] = "idle"
    /\ RunsStarted < MaxRuns
    /\ runArg' = [runArg EXCEPT ![c] = res]
    /\ dataRef' = [dataRef EXCEPT ![c] = CopyTarget(c)]
    /\ dataObjects' = [dataObjects EXCEPT ![CopyTarget(c)] = dataObjects["self"]]
    /\ runPc' = [runPc EXCEPT ![c] = "copied"]
    /\ UNCHANGED <<runFrame, inFiles, outFiles, runLog>>

\* self.fill_parser_data(data, compute_resources)
FillParserData(c) ==
    /\ runPc[c] = "copied"
    /\ dataObjects' = [dataObjects EXCEPT ![dataRef[c]] = FillData(@, runArg[c])]
    /\ runPc' = [runPc EXCEPT ![c] = "filled"]
    /\ UNCHANGED <<runFrame, runArg, dataRef, inFiles, outFiles, runLog>>

\* self.write_if_input(data, file_id): the file is opened with mode "w"
WriteIfInput(c) ==
    /\ runPc[c] = "filled"
    /\ inFiles' = [inFiles EXCEPT ![c] = RenderManifest(dataObjects[dataRef[c]])]
    /\ runPc' = [runPc EXCEPT ![c] = "written"]
    /\ UNCHANGED <<runFrame, runArg, dataRef, dataObjects, outFiles, runLog>>

\* self.run_command_in_shell(file_id); run_if returns and data is dropped
RunCommandInShell(c) ==
    /\ runPc[c] = "written"
    /\ outFiles' = [outFiles EXCEPT ![c] = Evaluate(inFiles[c])]
    /\ dataRef' = [dataRef EXCEPT ![c] = "none"]
    /\ dataObjects' = [o \in DOMAIN dataObjects |->
                          IF o = dataRef[c] /\ o # "self" THEN PipelineData
                          ELSE dataObjects[o]]
    /\ runPc' = [runPc EXCEPT ![c] = "evaluated"]
    /\ UNCHANGED <<runFrame, runArg, inFiles, runLog>>

\* parse_if_output(compute_resources, file_id=file_id) at application level
ParseRunOutput(c) ==
    /\ runPc[c] = "evaluated"
    /\ runLog' = Append(runLog, [resource |-> runArg[c],
                                 result |-> ParsedResult(outFiles[c], runArg[c])])
    /\ runArg' = [runArg EXCEPT ![c] = NoSnapshot]
    /\ runPc' = [runPc EXCEPT ![c] = "idle"]
    /\ UNCHANGED <<runFrame, dataRef, dataObjects, inFiles, outFiles>>

NextRunIf ==
    \/ \E c \in Callers : \E res \in Snapshots : CopyData(c, res)
    \/ \E c \in Callers : FillParserData(c)
    \/ \E c \in Callers : WriteIfInput(c)
    \/ \E c \in Callers : RunCommandInShell(c)
    \/ \E c \in Callers : ParseRunOutput(c)

SpecRunIf == InitRunIf /\ [][NextRunIf]_vars

(***************************************************************************)
(* The storage pipeline on one storage: the input record of                *)
(* get_resource_inputs, the Multiply nodes that PStorage and EStorage      *)
(* configure, and the rounding of get_measurements_from_output             *)
(* (specification SpecEnergy).                                             *)
(***************************************************************************)
\* largest size_gb of the storage
MaxSizeGb == 16

\* PStorage: Multiply of "storage/requested" and "power/coefficient" gives
\* "storage/power", here in units of 2.5e-8 kW
StoragePower(inputs) == inputs["storage/requested"].v * inputs["power/coefficient"].v

\* EStorage: Multiply of "storage/power" and "duration/seconds", divided by
\* 3600, gives "energy"; this is the numerator, the energy in units of
\* 2.5e-8 / 3600 kWh
EnergyNumerator(inputs) == StoragePower(inputs) * inputs["duration/seconds"].v

\* one ten-thousandth of a kWh in the unit of EnergyNumerator
TenThousandth == 14400000

\* round(energy, 4), in ten-thousandths of a kWh; no energy of the model is
\* half way between two of them
RoundEnergy(numerator) == (2 * numerator + TenThousandth) \div (2 * TenThousandth)

\* run_engine on the storage with the replication type given: the first
\* observation of the energy, before rounding and as energy_consumed[0]
EnergyOf(res, replication_type) ==
    [numerator |->
        EnergyNumerator(CombinedInputs([res EXCEPT !.replication_type = replication_type], 0)),
     energy_consumed |->
        RoundEnergy(EnergyNumerator(
            CombinedInputs([res EXCEPT !.replication_type = replication_type], 0)))]

Lrs == <<"L", "R", "S">>
Grs == <<"G", "R", "S">>

NotComputed == [numerator |-> -1, energy_consumed |-> -1]

energyFrame == <<baseVars, pueVars, rowVars, pathVars>>

InitEnergy ==
    /\ BaseIdle
    /\ PueIdle
    /\ RowIdle
    /\ PathIdle
    /\ energyPc = {}
    /\ base_storage \in
          [storage_type : StorageTypeInputs,
           replication_type : {Lrs},
           size_gb : {Num(n) : n \in 1..MaxSizeGb},
           duration_seconds : {86400, 43200},
           time_points : {<<1>>},
           carbon_intensity : {44},
           unset : {{}}]
    /\ storageEnergy = [r \in {Lrs, Grs} |-> NotComputed]

\* service.run_engine([storage]) with storage.replication_type set
RunStorageEngine(replication_type) ==
    /\ replication_type \notin energyPc
    /\ energyPc' = energyPc \cup {replication_type}
    /\ storageEnergy' = [storageEnergy EXCEPT ![replication_type] =
                            EnergyOf(base_storage, replication_type)]
    /\ UNCHANGED <<energyFrame, base_storage>>

NextEnergy ==
    \/ RunStorageEngine(Lrs)
    \/ RunStorageEngine(Grs)

SpecEnergy == InitEnergy /\ [][NextEnergy]_vars

(***************************************************************************)
(* The VirtualMachine lists that reach IFVMService.run_engine: built by    *)
(* the daemon's reader through create_vm, or by the hardware endpoint; and *)
(* SciEPue.fill_inputs on them (specification SpecPue).                    *)
(***************************************************************************)
\* most entries of the cpu_load query parameter
MaxLoad == 3

\* the cpu_load lists of a request, in hundredths
CpuLoads == UNION {[1..n -> {0, 50, 100}] : n \in 1..MaxLoad}

\* str(i * step_seconds) for i in range(num_of_data_points), the step left
\* symbolic
HwTimePoints(n) == [i \in 1..n |-> <<i - 1, "step_seconds">>]

\* the VirtualMachine(...) of the hardware endpoint; storage_size has the
\* length of cpu_load or the request is refused
HwVirtualMachine(cpu_load) ==
    [id |-> "0", region |-> "None",
     carbon_intensity |-> CalculateCi("germanywestcentral").value,
     cpu_util |-> cpu_load, time_points |-> HwTimePoints(Len(cpu_load)),
     storage_size |-> [i \in 1..Len(cpu_load) |-> 50],
     pue |-> DefaultPue]

\* SciEPue.fill_inputs(compute_resource, time_index)
SciEPueFillInputs(res, t) == [pue |-> res.pue]

\* get_resource_inputs, restricted to the SciEPue model: one record of inputs
\* for each time point of the resource
PueResourceInputs(res) ==
    [t \in 1..Len(res.time_points) |-> SciEPueFillInputs(res, t)]

pueFrame == <<baseVars, energyVars, rowVars, pathVars>>

InitPue ==
    /\ BaseIdle
    /\ EnergyIdle
    /\ RowIdle
    /\ PathIdle
    /\ puePc = "start"
    /\ pueEntry \in {"daemon", "hw"}
    /\ vmList = <<>>
    /\ pueInputs = <<>>

\* the reader processes a CSV row: process_csv_data and create_vm
DaemonBuildsVms(row) ==
    /\ puePc = "start"
    /\ pueEntry = "daemon"
    /\ vmList' = AfterRow(<<>>, row)
    /\ puePc' = "engine"
    /\ UNCHANGED <<pueFrame, pueEntry, pueInputs>>

\* the hardware endpoint builds its list of one VirtualMachine
EndpointBuildsVms(cpu_load) ==
    /\ puePc = "start"
    /\ pueEntry = "hw"
    /\ vmList' = <<HwVirtualMachine(cpu_load)>>
    /\ puePc' = "engine"
    /\ UNCHANGED <<pueFrame, pueEntry, pueInputs>>

\* run_engine(vms): get_resource_inputs on every VM of the list
VmProfileFillsPue ==
    /\ puePc = "engine"
    /\ pueInputs' = [i \in 1..Len(vmList) |-> PueResourceInputs(vmList[i])]
    /\ puePc' = "done"
    /\ UNCHANGED <<pueFrame, pueEntry, vmList>>

NextPue ==
    \/ \E row \in Rows : DaemonBuildsVms(row)
    \/ \E cpu_load \in CpuLoads : EndpointBuildsVms(cpu_load)
    \/ VmProfileFillsPue

SpecPue == InitPue /\ [][NextPue]_vars

(***************************************************************************)
(* process_storage_row and the functions it calls (specification           *)
(* SpecStorageRows). Sizes are in units of 1e-8 GB.                        *)
(***************************************************************************)
\* most calls of process_storage_row in a behaviour
MaxStorageRows == 2

\* 1.07374182, the GiB -> GB conversion, in units of 1e-8
GibInGb == 107374182

Gb(n) == n * 100000000

\* the ProductName cells, with the SKUs that r"\b([PES]\d+)\b" finds in their
\* upper case, and whether their lower case contains "ssd" and "hdd"
ProductNames ==
    ("Premium SSD Managed Disks - P1 LRS" :>
        [skus |-> <<"P1">>, ssd |-> TRUE, hdd |-> FALSE, replication |-> "LRS"]) @@
    ("Standard SSD Managed Disks - E2 GRS" :>
        [skus |-> <<"E2">>, ssd |-> TRUE, hdd |-> FALSE, replication |-> "GRS"]) @@
    ("Standard HDD Managed Disks - Snapshots" :>
        [skus |-> <<>>, ssd |-> FALSE, hdd |-> TRUE, replication |-> "LRS"])

\* DISK_SKU_SIZE_MAPPING, the entries of the SKUs above
DISK_SKU_SIZE_MAPPING == ("P1" :> 4) @@ ("E2" :> 8)

StorageRows ==
    [LineNumber : {"", "1", "2"},
     UnitOfMeasure : {"1 GiB/Hour", "1/Month", "1 GB/Month"},
     Quantity : {"", "24", "48", "-24", "abc"},
     ProductName : DOMAIN ProductNames,
     ResourceLocation : {"westeurope", "francesouth"},
     Date : {"2025-04-01"}]

\* extract_size_from_product_name: the size of the first SKU found that the
\* mapping has, 0.0 if there is none
ExtractSizeFromProductName(product_name) ==
    LET matches == ProductNames[product_name].skus
        known == {i \in 1..Len(matches) : matches[i] \in DOMAIN DISK_SKU_SIZE_MAPPING}
    IN  IF known = {}
        THEN 0
        ELSE Gb(DISK_SKU_SIZE_MAPPING[
                    matches[CHOOSE i \in known : \A j \in known : i <= j]])

\* calculate_storage_size(row, billing_period_days): str_to_float may raise
\* ValueError; (quantity / 24) * 1.07374182 is cut to 8 decimals
CalculateStorageSize(row, days) ==
    LET quantity == StrToFloat(row.Quantity)
    IN  IF ~quantity.ok
        THEN [exc |-> "ValueError", size_gb |-> 0, duration_seconds |-> 0]
        ELSE IF row.UnitOfMeasure = "1 GiB/Hour"
        THEN [exc |-> "none",
              size_gb |-> (quantity.value \div 24) * GibInGb
                          + ((quantity.value % 24) * GibInGb) \div 24,
              duration_seconds |-> 86400]
        ELSE IF row.UnitOfMeasure = "1/Month"
                /\ ExtractSizeFromProductName(row.ProductName) > 0
        THEN [exc |-> "none",
              size_gb |-> ExtractSizeFromProductName(row.ProductName),
              duration_seconds |-> days * quantity.value * 86400]
        ELSE [exc |-> "none", size_gb |-> 0, duration_seconds |-> 0]

\* get_storage_type(row)
GetStorageType(row) ==
    IF ProductNames[row.ProductName].ssd THEN "SSD"
    ELSE IF ProductNames[row.ProductName].hdd THEN "HDD"
    ELSE "Unknown"

\* get_replication_type(row), for the product names above
GetReplicationType(row) == ProductNames[row.ProductName].replication

\* create_storage_resource: calculate_ci(region) may raise
CreateStorageResource(row, storage_id, size_gb, storage_type, replication_type, duration_seconds) ==
    LET ci == CalculateCi(row.ResourceLocation)
    IN  [exc |-> ci.exc,
         resource |->
            [id |-> storage_id, name |-> row.ProductName,
             storage_type |-> storage_type,
             replication_type |-> replication_type,
             size_gb |-> size_gb, region |-> row.ResourceLocation,
             carbon_intensity |-> ci.value, time_points |-> <<>>,
             duration_seconds |-> duration_seconds]]

\* position of storage_id in storage_dict, 0 when it is not a key
StorageIndex(dict, storage_id) ==
    IF \E k \in 1..Len(dict) : dict[k].id = storage_id
    THEN CHOOSE k \in 1..Len(dict) : dict[k].id = storage_id
    ELSE 0

\* storage_dict[storage_id].time_points.append(timestamp)
AppendTimePoint(dict, storage_id, timestamp) ==
    [dict EXCEPT ![StorageIndex(dict, storage_id)].time_points =
                     Append(@, timestamp)]

\* process_storage_row(row, billing_period_days, storage_dict): what it gives
\* (its return value, or the exception that leaves it) and storage_dict after
ProcessStorageRowOutcome(row, days, dict) ==
    LET size == CalculateStorageSize(row, days)
        created == CreateStorageResource(row, row.LineNumber, size.size_gb,
                       GetStorageType(row), GetReplicationType(row),
                       size.duration_seconds)
    IN  IF size.exc # "none" THEN [ret |-> size.exc, dict |-> dict]
        ELSE IF size.size_gb <= 0 \/ size.duration_seconds <= 0
        THEN [ret |-> "False", dict |-> dict]
        ELSE IF row.LineNumber = "" THEN [ret |-> "False", dict |-> dict]
        ELSE IF StorageIndex(dict, row.LineNumber) = 0
        THEN IF created.exc # "none"
             THEN [ret |-> created.exc, dict |-> dict]
             ELSE [ret |-> "True",
                   dict |-> AppendTimePoint(Append(dict, created.resource),
                                            row.LineNumber, row.Date)]
        ELSE [ret |-> "True",
              dict |-> AppendTimePoint(dict, row.LineNumber, row.Date)]

\* the row has a size and a duration above zero and a LineNumber
IsAcceptedRow(row, days) ==
    LET size == CalculateStorageSize(row, days)
    IN  /\ size.exc = "none"
        /\ size.size_gb > 0
        /\ size.duration_seconds > 0
        /\ row.LineNumber # ""

rowFrame == <<baseVars, energyVars, pueVars, pathVars>>

InitStorageRows ==
    /\ BaseIdle
    /\ EnergyIdle
    /\ PueIdle
    /\ PathIdle
    /\ billing_period_days \in {30, 31}
    /\ storage_dict = <<>>
    /\ rowsApplied = 0
    /\ acceptedRows = <<>>
    /\ rowReturn = "none"

\* one call process_storage_row(row, billing_period_days, storage_dict)
ProcessStorageRow(row) ==
    /\ rowsApplied < MaxStorageRows
    /\ LET out == ProcessStorageRowOutcome(row, billing_period_days, storage_dict)
       IN  /\ storage_dict' = out.dict
           /\ rowReturn' = out.ret
    /\ acceptedRows' = IF IsAcceptedRow(row, billing_period_days)
                       THEN Append(acceptedRows, row)
                       ELSE acceptedRows
    /\ rowsApplied' = rowsApplied + 1
    /\ UNCHANGED <<rowFrame, billing_period_days>>

NextStorageRows == \E row \in StorageRows : ProcessStorageRow(row)

SpecStorageRows == InitStorageRows /\ [][NextStorageRows]_vars

(***************************************************************************)
(* The manifest and output files of evaluator runs in two processes: the   *)
(* daemon, whose run_engine call fans its chunks out over worker threads,  *)
(* and the API server, whose event loop handles one request at a time      *)
(* (specification SpecPaths). IF_FILES_DIR is a directory of the package,  *)
(* the same for both processes.                                            *)
(***************************************************************************)
\* most chunks of the daemon's run_engine call
MaxPathChunks == 2
\* most requests the API server handles in a behaviour
MaxRequests == 2

PathChunks == 0..(MaxPathChunks - 1)

\* INFILE_PATH + str(file_id) + FILE_EXTENSION: INFILE_PATH is an attribute of
\* the class IFService, the same for every profile
ManifestPath(file_id) == <<"generated", "if_input", file_id, ".yaml">>
\* OUTFILE_PATH + str(file_id) + FILE_EXTENSION
OutputPath(file_id) == <<"generated", "if_output", file_id, ".yaml">>

PathFileIds == {FileId(c) : c \in PathChunks} \cup {FileIdDefault(0)}

DaemonRun(c) == [process |-> "daemon", run |-> c]
ApiRun(k) == [process |-> "api", run |-> k]
NoRun == [process |-> "none", run |-> 0]

\* the file id of a request of the API server: IFAppService.run_engine calls
\* self.run_if(compute_resources), the hardware endpoint hands one VM to
\* IFVMService.run_engine, whose only chunk has index 0
ApiFileId(request_profile) ==
    IF request_profile = "app" THEN FileIdDefault(0) ELSE FileId(0)

\* the runs between the call of run_if and the return of parse_if_output,
\* with their file ids
RunsInProgress ==
    {[run |-> DaemonRun(c), file_id |-> FileId(c)] :
        c \in {d \in DOMAIN chunkPc : chunkPc[d] \in {"written", "evaluated"}}}
    \cup (IF apiPc \in {"written", "evaluated"}
          THEN {[run |-> ApiRun(apiServed), file_id |-> ApiFileId(apiProfile)]}
          ELSE {})

pathFrame == <<baseVars, energyVars, pueVars, rowVars>>

InitPaths ==
    /\ BaseIdle
    /\ EnergyIdle
    /\ PueIdle
    /\ RowIdle
    /\ daemonChunks \in 1..MaxPathChunks
    /\ chunkPc = [c \in 0..(daemonChunks - 1) |-> "submitted"]
    /\ apiPc = "idle"
    /\ apiProfile = "none"
    /\ apiServed = 0
    /\ manifestAt = [f \in PathFileIds |-> NoRun]
    /\ outputAt = [f \in PathFileIds |-> NoRun]

\* compute_metrics_for_chunk(chunk, index) of the daemon: run_if writes the
\* manifest of the chunk
DaemonWritesManifest(c) ==
    /\ c \in DOMAIN chunkPc
    /\ chunkPc[c] = "submitted"
    /\ manifestAt' = [manifestAt EXCEPT ![FileId(c)] = DaemonRun(c)]
    /\ chunkPc' = [chunkPc EXCEPT ![c] = "written"]
    /\ UNCHANGED <<pathFrame, daemonChunks, apiPc, apiProfile, apiServed, outputAt>>

\* run_command_in_shell(file_id): the evaluator reads the manifest path and
\* writes the output path
DaemonRunsEvaluator(c) ==
    /\ c \in DOMAIN chunkPc
    /\ chunkPc[c] = "written"
    /\ outputAt' = [outputAt EXCEPT ![FileId(c)] = manifestAt[FileId(c)]]
    /\ chunkPc' = [chunkPc EXCEPT ![c] = "evaluated"]
    /\ UNCHANGED <<pathFrame, daemonChunks, apiPc, apiProfile, apiServed, manifestAt>>

\* parse_if_output(chunk, file_id=index) reads the output path
DaemonParsesOutput(c) ==
    /\ c \in DOMAIN chunkPc
    /\ chunkPc[c] = "evaluated"
    /\ chunkPc' = [chunkPc EXCEPT ![c] = "parsed"]
    /\ UNCHANGED <<pathFrame, daemonChunks, apiPc, apiProfile, apiServed, manifestAt,
                   outputAt>>

\* the event loop takes a request; its run_engine calls run_if, which writes
\* the manifest
ApiWritesManifest(request_profile) ==
    /\ apiPc = "idle"
    /\ apiServed < MaxRequests
    /\ apiProfile' = request_profile
    /\ manifestAt' = [manifestAt EXCEPT ![ApiFileId(request_profile)] =
                                            ApiRun(apiServed)]
    /\ apiPc' = "written"
    /\ UNCHANGED <<pathFrame, daemonChunks, chunkPc, apiServed, outputAt>>

ApiRunsEvaluator ==
    /\ apiPc = "written"
    /\ outputAt' = [outputAt EXCEPT ![ApiFileId(apiProfile)] =
                                        manifestAt[ApiFileId(apiProfile)]]
    /\ apiPc' = "evaluated"
    /\ UNCHANGED <<pathFrame, daemonChunks, chunkPc, apiProfile, apiServed, manifestAt>>

\* parse_if_output returns, the request is answered and the event loop is
\* free for the next request
ApiParsesOutput ==
    /\ apiPc = "evaluated"
    /\ apiPc' = "idle"
    /\ apiServed' = apiServed + 1
    /\ UNCHANGED <<pathFrame, daemonChunks, chunkPc, apiProfile, manifestAt, outputAt>>

NextPaths ==
    \/ \E c \in PathChunks : DaemonWritesManifest(c)
    \/ \E c \in PathChunks : DaemonRunsEvaluator(c)
    \/ \E c \in PathChunks : DaemonParsesOutput(c)
    \/ \E request_profile \in {"app", "vm"} : ApiWritesManifest(request_profile)
    \/ ApiRunsEvaluator
    \/ ApiParsesOutput

SpecPaths == InitPaths /\ [][NextPaths]_vars

(***************************************************************************)
(* Properties of run_engine (specification Spec).                          *)
(***************************************************************************)
EngineDone == enginePc = "done"
Returned == EngineDone /\ engineResult.kind = "returned"

\* C1: if the evaluator reports a non-success status for a chunk, run_engine
\* raises to its caller an error naming that chunk's file id; it never
\* returns normally.
C1_StatusFailureRaised ==
    EngineDone =>
        \A c \in Submitted :
            wexc[c].kind = "IF_EXECUTION_FAILED" =>
                /\ engineResult.kind = "raised"
                /\ engineResult.exc.kind = "IF_EXECUTION_FAILED"
                /\ engineResult.exc.fileId \in
                      {wexc[d].fileId : d \in {e \in Submitted :
                                                 wexc[e].kind = "IF_EXECUTION_FAILED"}}

\* C2: whatever the order in which the chunk workers complete, the list
\* run_engine returns holds the same resources at the same positions as the
\* list it was given.
C2_OrderPreserved == Returned => vms = inputList

\* run_engine has returned a list of several chunks of which one was written
\* back before a chunk of lower index had finished
C2_Witness == Returned /\ outOfOrder /\ NumChunks >= 3

\* C3: no resource of a failed chunk has a per-time-point or total field
\* populated from that chunk's output.
C3_NoPartialMerge ==
    \A c \in Failed : \A i \in 1..Len(Chunk(c)) : heap[Chunk(c)[i]] = Uncomputed

\* C4: every change of what the output list shows (its slots, and the fields
\* of the resources in it) is made by the worker holding the lock, in its
\* write-back.
C4_SharedWritesUnderLock ==
    [][(vms' # vms \/ heap' # heap) =>
          \E c \in lock : wpc[c] = "locked" /\ wpc'[c] = "done"]_vars

\* C5: within one run_engine call every chunk has a file id of its own, so no
\* manifest or output file is written or read by two chunk workers.
C5_DistinctFiles ==
    /\ \A f \in ChunkIds : Cardinality(fileUsers[f]) <= 1
    /\ \A c, d \in Submitted : c # d => FileId(c) # FileId(d)

\* two workers are between their evaluator run and their parse at once
C5_Witness ==
    \E c, d \in Submitted :
        /\ c # d
        /\ wpc[c] = "evaluated"
        /\ wpc[d] = "evaluated"
        /\ fileUsers[FileId(c)] = {c}
        /\ fileUsers[FileId(d)] = {d}

\* C6: once run_engine has returned, every chunk has been submitted and no
\* worker is queued, evaluating, parsing or writing back.
C6_ReturnsAfterAllWorkers ==
    Returned =>
        /\ submitted = NumChunks
        /\ \A c \in Submitted : wpc[c] \in {"done", "failed"}
        /\ lock = {}

\* run_engine has returned after several chunks, one of them failed
C6_Witness ==
    /\ Returned
    /\ NumChunks >= 3
    /\ Failed # {}
    /\ \E c \in Submitted : wpc[c] = "done"

\* C7: at most 5 chunk workers execute at any moment.
C7_AtMostFiveWorkers == Cardinality(Running) <= 5

\* five workers are executing while a sixth chunk waits in the queue
C7_Witness ==
    /\ Cardinality(Running) = 5
    /\ \E c \in Submitted : wpc[c] = "queued"

(***************************************************************************)
(* Properties of exec_query (specification SpecQuery).                     *)
(***************************************************************************)
QueryDone == qpc = "done"

\* C8: whenever the first request or any repeated request yields a non-HTML
\* response, exec_query does not raise TokenError (it goes on to parse that
\* response).
C8_NonHtmlIsParsed ==
    QueryDone =>
        ((\E i \in 1..Len(qlog) : qlog[i] \in Responses /\ ~IsHtml(qlog[i]))
            => qresult.kind # "TokenError")

\* C9: whenever a request of exec_query times out, exec_query raises
\* ThanosError THANOS_TIMEOUT; whenever one cannot connect, it raises
\* ThanosError THANOS_CONNECTION_ERROR.
C9_RequestErrorSurfaces ==
    QueryDone =>
        \A i \in 1..Len(qlog) :
            /\ qlog[i] = "timeout" =>
                  qresult = [kind |-> "ThanosError", code |-> THANOS_TIMEOUT]
            /\ qlog[i] = "connect" =>
                  qresult = [kind |-> "ThanosError", code |-> THANOS_CONNECTION_ERROR]

(***************************************************************************)
(* Properties of CarbonDaemon.run (specification SpecDaemon).              *)
(***************************************************************************)
DaemonDone == daemonPc = "done"

\* C10: run never raises; when the reader, the carbon service or the writer
\* throws, run returns a result with success = FALSE and a non-empty
\* error_message.
C10_RunNeverRaises ==
    /\ daemonResult.kind # "raised"
    /\ DaemonDone =>
          /\ daemonResult.kind = "returned"
          /\ thrown.kind # "none" =>
                /\ daemonResult.success = FALSE
                /\ daemonResult.error_message # ""

\* run has ended after the writer threw an exception that is not a
\* KnownException
C10_Witness ==
    /\ DaemonDone
    /\ thrown = [by |-> "writer", kind |-> "Exception"]
    /\ Len(stepLog) = 3

ReaderReturned == stepLog # <<>> /\ thrown.by # "reader"

\* C11: the steps of run occur in the order read, process, write, each at most
\* once; the writer is invoked only after the reader returned a non-empty
\* list and run_engine returned without raising, and with the list run_engine
\* returned; when the reader returns no VMs the result is success = FALSE
\* with vm_count = 0 and neither the carbon service nor the writer is invoked.
C11_StepOrder ==
    /\ stepLog \in {<<>>, <<"read">>, <<"read", "process">>,
                    <<"read", "process", "write">>}
    /\ Len(stepLog) = 3 =>
          /\ ReaderReturned
          /\ Len(inputList) > 0
          /\ engineResult.kind = "returned"
          /\ writerArg = vms
    /\ Len(stepLog) < 3 => writerArg = <<>>
    /\ (ReaderReturned /\ inputList = <<>>) =>
          /\ stepLog = <<"read">>
          /\ enginePc = "idle"
          /\ daemonResult = [kind |-> "returned", success |-> FALSE,
                             vm_count |-> 0,
                             error_message |-> "known error during daemon execution"]

\* run has gone through read, process and write and reports success for a
\* list of several chunks
C11_Witness ==
    /\ DaemonDone
    /\ stepLog = <<"read", "process", "write">>
    /\ daemonResult.success
    /\ daemonResult.vm_count = Len(writerArg)
    /\ Len(writerArg) >= 3

(***************************************************************************)
(* Properties of the compute readers (specification SpecReader).           *)
(***************************************************************************)
\* C12: every VirtualMachine that read_files returns has as many cpu_util
\* entries as time_points and as storage_size entries, whatever the files and
\* rows were, including rows whose values do not parse and files that were
\* aborted and recorded as missing.
C12_EqualSeriesLengths ==
    readerPc = "returned" =>
        \A i \in 1..Len(readerResult.vms) :
            /\ Len(readerResult.vms[i].cpu_util) = Len(readerResult.vms[i].time_points)
            /\ Len(readerResult.vms[i].time_points) = Len(readerResult.vms[i].storage_size)

(***************************************************************************)
(* Properties of retrieve_telemetry_data and of the /run-engine/ endpoint  *)
(* (specification SpecArgos).                                              *)
(***************************************************************************)
Retrieved == telemetryResult.kind = "returned"
Responded == argosPc = "responded"
SplitBy == IF applications THEN "app" ELSE "paas"

\* C13: every metric series that parse_pod_data stored on a pod (cpu_util,
\* requested_cpu, requested_memory) has as many entries as the grid of desired
\* timestamps, whether the raw series was shorter than, as long as or longer
\* than the grid; so has every series create_resource aggregates from them.
C13_SeriesMatchGrid ==
    /\ \A i \in 1..Len(interp_pod_telemetries) : \A field \in Range(Tasks) :
          interp_pod_telemetries[i][field] # <<>> =>
              Len(interp_pod_telemetries[i][field]) =
                  Len(interp_pod_telemetries[i].time_points)
    /\ Retrieved =>
          \A r \in 1..Len(telemetryResult.resources) : \A field \in Range(Tasks) :
              Len(telemetryResult.resources[r][field]) =
                  Len(telemetryResult.resources[r].time_points)

\* C14: every pod of the resources that retrieve_telemetry_data returns has a
\* non-empty series for each of requested_cpu, requested_memory and cpu_util,
\* with the series as they were parsed; a parsed pod that lacks one of the
\* three is in no returned resource.
C14_OnlyCompletePods ==
    Retrieved =>
        /\ \A r \in 1..Len(telemetryResult.resources) :
              \A j \in 1..Len(telemetryResult.resources[r].pods) :
                  LET pod == telemetryResult.resources[r].pods[j] IN
                  /\ pod.requested_cpu # <<>>
                  /\ pod.requested_memory # <<>>
                  /\ pod.cpu_util # <<>>
                  /\ pod \in Range(interp_pod_telemetries)
        /\ \A i \in 1..Len(interp_pod_telemetries) :
              LET pod == interp_pod_telemetries[i] IN
              (pod.requested_cpu = <<>> \/ pod.requested_memory = <<>>
                   \/ pod.cpu_util = <<>>) =>
                  \A r \in 1..Len(telemetryResult.resources) :
                      \A j \in 1..Len(telemetryResult.resources[r].pods) :
                          telemetryResult.resources[r].pods[j].id # pod.id

\* resources were returned while a pod that has cpu_util and requested_cpu but
\* no requested_memory was parsed
C14_Witness ==
    /\ Retrieved
    /\ telemetryResult.resources # <<>>
    /\ \E i \in 1..Len(interp_pod_telemetries) :
          /\ interp_pod_telemetries[i].cpu_util # <<>>
          /\ interp_pod_telemetries[i].requested_cpu # <<>>
          /\ interp_pod_telemetries[i].requested_memory = <<>>

\* the loops of retrieve_telemetry_data ended and the filter kept no pod
AllPodsDropped ==
    /\ argosPc \in {"retrieved", "responded"}
    /\ groupIndex > NumGroups
    /\ FilteredPods(interp_pod_telemetries) = <<>>

\* C15: when the filter drops every pod the endpoint raises DataFetchError
\* DATA_FETCH_NO_RESULTS, unchanged; any other failure of the request is
\* raised as ComputationError COMPUTATION_FAILED; the two outcomes differ and
\* neither is raised for the other.
C15_NoDataDistinctFromCrash ==
    Responded =>
        /\ AllPodsDropped =>
              /\ telemetryResult.code = DATA_FETCH_NO_RESULTS
              /\ apiResult = [kind |-> "raised", exc |-> "DataFetchError",
                              code |-> DATA_FETCH_NO_RESULTS, status |-> 404]
        /\ (~AllPodsDropped /\ apiResult.kind = "raised") =>
              apiResult = [kind |-> "raised", exc |-> "ComputationError",
                           code |-> COMPUTATION_FAILED, status |-> 500]
        /\ apiResult.exc = "DataFetchError" => AllPodsDropped

\* the endpoint has answered a request for which pods were parsed and all of
\* them were dropped by the filter
C15_Witness ==
    /\ Responded
    /\ AllPodsDropped
    /\ Len(interp_pod_telemetries) >= 2
    /\ apiResult.status = 404

\* C16: the resources split_pods_by_resource returns partition the pods it
\* was given: every resource owns at least one pod, and every pod is owned by
\* exactly one resource, the one named by the pod's grouping key.
C16_SplitPartitionsPods ==
    Retrieved =>
        LET resources == telemetryResult.resources
            pods == FilteredPods(interp_pod_telemetries)
            Owners(pod) == {r \in 1..Len(resources) :
                               \E j \in 1..Len(resources[r].pods) :
                                   resources[r].pods[j] = pod}
        IN  /\ \A r \in 1..Len(resources) :
                  /\ Len(resources[r].pods) >= 1
                  /\ \A j \in 1..Len(resources[r].pods) :
                        /\ resources[r].pods[j] \in Range(pods)
                        /\ \A k \in 1..Len(resources[r].pods) :
                              resources[r].pods[j] = resources[r].pods[k] => j = k
            /\ \A i \in 1..Len(pods) :
                  /\ Cardinality(Owners(pods[i])) = 1
                  /\ \A r \in Owners(pods[i]) :
                        resources[r].name = KeyOf(pods[i], SplitBy)

\* three pods were split into two resources, one of them with two pods
C16_Witness ==
    /\ Retrieved
    /\ Len(telemetryResult.resources) = 2
    /\ \E r \in 1..Len(telemetryResult.resources) :
          Len(telemetryResult.resources[r].pods) = 2

(***************************************************************************)
(* Properties of PaasCiMapper (specification SpecCi).                      *)
(***************************************************************************)
\* C17: for every region or zone, the zones that ZONES yields and the
\* no-match value included, the carbon-intensity provider returns a number
\* and does not raise, and the number is 281 whenever the region is not in
\* the table.
C17_AlwaysScalar ==
    /\ ciResult.kind # "raised"
    /\ \A zone \in ZoneInputs :
          zone \notin DOMAIN REGION_TO_COUNTRY_CARBON_INTENSITY =>
              CalculateCi(zone) = CiReturned(281)

(***************************************************************************)
(* Properties of get_resource_inputs (specification SpecInputs).           *)
(***************************************************************************)
\* a value that is there and is a number
Defined(record, key) == key \in DOMAIN record /\ record[key].kind # "nan"

\* C18: get_resource_inputs never returns an input record from which an input
\* of one of its models is missing or undefined: for a resource with an absent
\* attribute it either fills the record in full (a default took the place of
\* the attribute) or it does not return.
C18_NoSilentMissingInput ==
    inputsPc = "returned" =>
        \A i \in 1..Len(resource_inputs) :
            \A k \in 1..Len(StorageModels) :
                \A key \in ModelInputKeys(StorageModels[k]) :
                    Defined(resource_inputs[i], key)

(***************************************************************************)
(* Properties of the mapping of evaluator output (specification SpecMap).  *)
(***************************************************************************)
\* the metrics of METRICS_MAPPER that the output of the resource lacks
AbsentMetrics == DOMAIN METRICS_MAPPER \ DOMAIN if_output.aggregated

\* C19: once the evaluator output has been mapped onto a resource, the
\* observation field and the total field of every metric that the output
\* lacks hold the values they had before the mapping, and the mapping did not
\* raise.
C19_AbsentMetricsUntouched ==
    /\ mapPc # "raised"
    /\ mapPc \in {"round", "done"} =>
          \A key \in AbsentMetrics :
              /\ compute_resource[METRICS_MAPPER[key].observations] =
                     resource_before[METRICS_MAPPER[key].observations]
              /\ METRICS_MAPPER[key].aggregated # "None" =>
                     compute_resource[METRICS_MAPPER[key].aggregated] =
                         resource_before[METRICS_MAPPER[key].aggregated]

\* an output with two time points that lacks some metrics and has others was
\* mapped onto a resource whose fields held earlier results
C19_Witness ==
    /\ mapPc = "done"
    /\ resource_before = MappedResource
    /\ Len(if_output.outputs) = 2
    /\ "carbon" \in AbsentMetrics
    /\ "energy" \notin AbsentMetrics
    /\ compute_resource["energy_consumed"] # resource_before["energy_consumed"]
    /\ compute_resource["carbon_emitted"] # <<>>

(***************************************************************************)
(* Properties of repeated runs of the pipeline (specification SpecRunIf).  *)
(***************************************************************************)
\* C20: every run of the pipeline on a resource gives the per-time-point
\* outputs and the aggregate that the resource and the roster alone determine,
\* whatever ran before it or runs beside it; so two runs on the same resource
\* snapshot give identical outputs and identical aggregates.
C20_RunsDependOnInputsOnly ==
    /\ \A i \in 1..Len(runLog) : runLog[i].result = Assemble(runLog[i].resource)
    /\ \A i, j \in 1..Len(runLog) :
          runLog[i].resource = runLog[j].resource =>
              /\ runLog[i].result.outputs = runLog[j].result.outputs
              /\ runLog[i].result.aggregated = runLog[j].result.aggregated

\* the same snapshot was run twice, with a run of the same resource under other
\* telemetry in between, and another caller is half way through a run of
\* another resource
C20_Witness ==
    /\ Len(runLog) = 3
    /\ runLog[1].resource = SnapshotA
    /\ runLog[2].resource = SnapshotB
    /\ runLog[3].resource = SnapshotA
    /\ runLog[1].result.kind = "returned"
    /\ runLog[1].result.outputs # runLog[2].result.outputs
    /\ \E c \in Callers : runPc[c] = "filled" /\ runArg[c] = SnapshotC

(***************************************************************************)
(* Properties of the storage energy (specification SpecEnergy).            *)
(***************************************************************************)
BothComputed == energyPc = {Lrs, Grs}

C22_PueIsOne ==
    puePc = "done" =>
        \A i \in 1..Len(vmList) :
            /\ vmList[i].pue = DefaultPue
            /\ \A t \in 1..Len(pueInputs[i]) : pueInputs[i][t].pue = DefaultPue

\* C22 as amended: a VirtualMachine built by the hardware endpoint carries the
\* default pue == 1, one built by the daemon's create_vm carries PUE_AZURE,
\* and the pue input of every time point is the one the VirtualMachine
\* carries.
C22_PueByEntryPoint ==
    puePc = "done" =>
        \A i \in 1..Len(vmList) :
            /\ pueEntry = "hw" => vmList[i].pue = DefaultPue
            /\ pueEntry = "daemon" => vmList[i].pue = PUE_AZURE
            /\ Len(pueInputs[i]) = Len(vmList[i].time_points)
            /\ \A t \in 1..Len(pueInputs[i]) :
                   pueInputs[i][t].pue = vmList[i].pue

\* the VM profile has processed a VirtualMachine that the daemon built
C22_Witness ==
    /\ puePc = "done"
    /\ pueEntry = "daemon"
    /\ Len(vmList) = 1
    /\ Len(vmList[1].time_points) = 1
    /\ pueInputs[1][1].pue = PUE_AZURE

(***************************************************************************)
(* Properties of CarbonDaemon.run on a failed chunk (specification         *)
(* SpecDaemon).                                                            *)
(***************************************************************************)
\* C23: run returns success == True, and the writer is reached, only if the
\* evaluator ran successfully for every chunk of VMs; once the evaluation of
\* a chunk has failed, run returns success == False and nothing is uploaded.
C23_SuccessOnlyIfEveryChunkRan ==
    /\ (daemonPc = "write" => Failed = {})
    /\ (daemonPc = "done" /\ Failed # {} =>
            /\ daemonResult.success = FALSE
            /\ writerArg = <<>>
            /\ \A i \in 1..Len(stepLog) : stepLog[i] # "write")

(***************************************************************************)
(* Properties of read_files on a failing file (specification SpecReader).  *)
(***************************************************************************)
\* C26: read_files raises to its caller if reading or processing a file
\* fails: it returns a list only when no file raised, and in particular a
\* permission-denied error is never absorbed into a returned list.
C26_FileFailureSurfaces ==
    readerPc = "returned" /\ readerResult.kind = "returned" =>
        /\ \A err \in fileErrors : err.error # "FILE_PERMISSION_DENIED"
        /\ fileErrors = {}

(***************************************************************************)
(* Properties of run_engine on an empty list (specification Spec).         *)
(***************************************************************************)
\* C27: called with an empty resource list, the VM and Storage run_engine
\* return the empty list, raise nothing and invoke the evaluator for no chunk.
C27_EmptyListReturnsEmpty ==
    enginePc = "done" /\ Len(inputList) = 0 =>
        /\ engineResult.kind = "returned"
        /\ vms = <<>>
        /\ Submitted = {}

(***************************************************************************)
(* Termination of exec_query (specification SpecQueryLive).                *)
(***************************************************************************)
\* every entry of the log of requests is an HTML response
EveryResponseHtml == qlog # <<>> /\ \A i \in 1..Len(qlog) : qlog[i] = "html"

QueryEnded == qpc = "done"

\* C28: every exec_query call ends, after at most 4 HTTP requests and at most
\* 3 token refreshes, with a parsed result or a raised error; when every
\* response was HTML it ends with TokenError AUTH_TOKEN_REFRESH_FAILED.
C28_BoundedTermination ==
    /\ [](Len(qlog) <= 4 /\ refreshes <= 3)
    /\ [](QueryEnded =>
            /\ qresult.kind \in {"result", "ThanosError", "TokenError"}
            /\ EveryResponseHtml =>
                  qresult = [kind |-> "TokenError",
                             code |-> AUTH_TOKEN_REFRESH_FAILED])
    /\ <>QueryEnded

\* a call that made 4 requests and 3 refreshes, every response HTML
C28_Witness ==
    /\ QueryEnded
    /\ Len(qlog) = 4
    /\ refreshes = 3
    /\ EveryResponseHtml
    /\ qresult.kind = "TokenError"

(***************************************************************************)
(* Properties of retrieve_telemetry_data on a failing cluster group        *)
(* (specification SpecArgos).                                              *)
(***************************************************************************)
\* the loop over the cluster groups went on after the failure f
LoopWentOnAfter(f) ==
    /\ groupIndex > f.group
    /\ ~(telemetryResult.kind = "raised" /\ telemetryResult.exc = f.exc
            /\ telemetryResult.code # DATA_FETCH_NO_RESULTS)

C29_InputsUnchanged ==
    mapPc = "done" =>
        \A a \in InputAttributes : compute_resource[a] = resource_before[a]

\* C29 as amended: time_points, requested_memory, storage_size and
\* carbon_intensity hold what they held before the run; requested_cpu holds
\* the resources-reserved observations of the output, rounded to 4 decimals,
\* when the output carries that metric, and what it held before otherwise;
\* cpu_util holds its former values rounded to 4 decimals in pod-level mode
\* and its former values in application-level mode.
C29_OnlyCpuInputsChange ==
    mapPc = "done" =>
        /\ \A a \in InputAttributes \ {"cpu_util", "requested_cpu"} :
              compute_resource[a] = resource_before[a]
        /\ compute_resource["requested_cpu"] =
              IF "resources-reserved" \in DOMAIN if_output.aggregated
              THEN [t \in 1..Len(if_output.outputs) |->
                       Round4(if_output.outputs[t]["resources-reserved"])]
              ELSE resource_before["requested_cpu"]
        /\ compute_resource["cpu_util"] =
              IF pod_level
              THEN [i \in 1..Len(resource_before["cpu_util"]) |->
                       Round4(resource_before["cpu_util"][i])]
              ELSE resource_before["cpu_util"]

\* a pod-level run whose output carried resources-reserved for two time
\* points: cpu_util was rounded and requested_cpu replaced
C29_Witness ==
    /\ mapPc = "done"
    /\ pod_level
    /\ Len(if_output.outputs) = 2
    /\ "resources-reserved" \in DOMAIN if_output.aggregated
    /\ compute_resource["cpu_util"] # resource_before["cpu_util"]
    /\ compute_resource["requested_cpu"] # resource_before["requested_cpu"]
    /\ compute_resource["requested_memory"] = <<25000, 25000>>

(***************************************************************************)
(* Properties of process_storage_row (specification SpecStorageRows).      *)
(***************************************************************************)
\* the positions in acceptedRows of the rows with a LineNumber
AcceptedWith(line_number) ==
    {i \in 1..Len(acceptedRows) : acceptedRows[i].LineNumber = line_number}

FirstAcceptedWith(line_number) ==
    acceptedRows[CHOOSE i \in AcceptedWith(line_number) :
                    \A j \in AcceptedWith(line_number) : i <= j]

\* C30: after any sequence of calls, storage_dict holds exactly one
\* StorageResource for every LineNumber among the accepted rows (rows with
\* size <= 0, duration <= 0 or no LineNumber leave it unchanged) and none
\* else; each resource keeps the size_gb and duration_seconds of the first
\* accepted row with its LineNumber and has one time point for every accepted
\* row with that LineNumber.
C30_OneResourcePerLineNumber ==
    /\ {storage_dict[k].id : k \in 1..Len(storage_dict)} =
          {acceptedRows[i].LineNumber : i \in 1..Len(acceptedRows)}
    /\ \A k, l \in 1..Len(storage_dict) :
          storage_dict[k].id = storage_dict[l].id => k = l
    /\ \A k \in 1..Len(storage_dict) :
          AcceptedWith(storage_dict[k].id) # {} =>
             LET first == CalculateStorageSize(
                              FirstAcceptedWith(storage_dict[k].id),
                              billing_period_days)
             IN  /\ storage_dict[k].size_gb = first.size_gb
                 /\ storage_dict[k].duration_seconds = first.duration_seconds
                 /\ Len(storage_dict[k].time_points) =
                       Cardinality(AcceptedWith(storage_dict[k].id))

(***************************************************************************)
(* Properties of the file paths of concurrent runs (specification          *)
(* SpecPaths).                                                             *)
(***************************************************************************)
\* C24: no two evaluator runs that are in progress at the same time, of the
\* same or of different run_engine calls and profiles, use the same manifest
\* path or the same output path.
C24_NoSharedPaths ==
    \A r1, r2 \in RunsInProgress :
        r1.run # r2.run =>
            /\ ManifestPath(r1.file_id) # ManifestPath(r2.file_id)
            /\ OutputPath(r1.file_id) # OutputPath(r2.file_id)

====
